---- MODULE Spec2Model ----
(***************************************************************************)
(* KiarTV Discord bot: the channel store (services/channelStore.ts), the  *)
(* renderer and the channel synchronizer (commands/caves.ts, update.ts,   *)
(* populatethread.ts).                                                     *)
(*                                                                         *)
(* One module, several specifications over the same variables:            *)
(*   SpecStore   sequential upsertChannelConfig / removeChannelConfig      *)
(*   SpecSort    spots.sort followed by the emit loop, short inputs        *)
(*   SpecCap     the emit loop on long inputs, against maxMessages         *)
(*   SpecFormat  formatCaveText of the three flows                         *)
(*   SpecUpdate  updateChannel: fetch, clear loop, emit                    *)
(*   SpecMaps    fetchMapsForServer on the answers of the catalog          *)
(*   SpecRequest handleInteraction on one command, button or autocomplete  *)
(*   SpecAutocomplete  two handlings of one autocomplete interaction       *)
(*   SpecClear   the clear loop of updateChannel, with fairness            *)
(*   SpecParse   parseServerAndMapFromHeader on the texts the flows send   *)
(*   SpecStartup index.ts and deployCommands                               *)
(*   SpecPopulate  the map loop of executePopulateThreadCommand            *)
(*   SpecConcurrent  two store calls interleaved at their awaits           *)
(*   SpecTasks   two updateChannel flows on one channel                    *)
(***************************************************************************)
EXTENDS Integers, Sequences, FiniteSets, TLC

VARIABLES
    file,         \* channel-store.json: guild id -> (channel id -> config)
    last,         \* the latest store call, when it was a successful upsert
    prevChannel,  \* the channel of the call before it, when that was a successful
                  \* upsert of the same config in the same guild on another channel
    cmd,          \* the command whose flow runs: "caves", "update" or "populate"
    input,        \* the records the catalog returns for the flow
    spots,        \* the spots array of the flow
    len,          \* spots.length
    i,            \* the number of completed passes of the emit loop
    lastType,     \* lastType
    idx,          \* idx
    messageCount, \* messageCount
    out,          \* the messages the flow has sent to the channel, in order
    sent,         \* how many messages the flow has sent, the footer apart
    footers,      \* the counts printed by the truncation footers the flow has sent
    throws,       \* how many sends of the flow have thrown
    pc,           \* where the flow stands
    young,        \* earlier messages of the channel younger than 14 days
    old,          \* earlier messages of the channel of 14 days or more
    young0,       \* young when the flow started
    old0,         \* old when the flow started
    fetches,      \* how many times the clear loop has fetched messages
    batches,      \* the sizes of the bulk deletions of the clear loop
    response,     \* what the catalog answers to the map listing of fetchMapsForServer
    maps,         \* what fetchMapsForServer returned, NULL before the call
    request,      \* the inbound interaction: its kind, options and surroundings
    interaction,  \* interaction.deferred, interaction.replied, interaction.responded
    deferral,     \* the deferReply call: "none", "inflight", "resolved", "rejected"
    acks,         \* how many reply / deferReply calls the handling has issued
    replies,      \* the messages the handling has issued to the user, in order
    file0,        \* the content of channel-store.json when the request arrived
    handlers,     \* where each handling of one autocomplete interaction stands
    entries,      \* all-mode: the channel ids of Object.entries(saved)
    cursor,       \* all-mode: how many entries the loop has gone through
    success,      \* all-mode: success
    failed,       \* all-mode: failed
    outcomes,     \* how the flows of the request ended, and how they were tallied
    history,      \* the earlier messages of the channel, as the header scan reads them
    savedCfg,     \* update here: <<what getChannelConfig returned>>, <<>> before the call
    scans,        \* update here: how many times the header scan has fetched messages
    resolved,     \* update here: lastServer and lastMap
    headerText,   \* the text handed to parseServerAndMapFromHeader
    parsed,       \* <<what parseServerAndMapFromHeader returned>>, <<>> before the call
    env,          \* process.env and process.argv when the bot starts
    proc,         \* the process of the bot: where it stands, its exit code, its client
    mapIndex,     \* populate: how many maps the loop has gone through
    threads,      \* populate: the maps a forum post was created for, in order
    calls,        \* concurrent store calls: arguments, position and held store of each
    writes,       \* concurrent store calls: the callers in the order of their writes
    tasks,        \* concurrent update flows on one channel: where each stands
    chan,         \* the messages of that channel, oldest first, each with its author
    purged        \* the (author, deleter) pairs of the messages a flow has deleted

storeVars == <<file, last, prevChannel>>

flowVars == <<cmd, input, spots, len, i, lastType, idx, messageCount, out, sent, footers,
              throws, pc>>

\* The variables of the flow but pc.
flowRest == <<cmd, input, spots, len, i, lastType, idx, messageCount, out, sent, footers,
              throws>>

channelVars == <<young, old, young0, old0, fetches, batches>>

apiVars == <<response, maps>>

interactionVars == <<request, interaction, deferral, acks, replies, file0, handlers>>

allVars == <<entries, cursor, success, failed, outcomes>>

resolveVars == <<history, savedCfg, scans, resolved>>

parseVars == <<headerText, parsed>>

startVars == <<env, proc>>

populateVars == <<mapIndex, threads>>

concurrentVars == <<calls, writes, tasks, chan, purged>>

sideVars == <<resolveVars, parseVars, startVars, populateVars, concurrentVars>>

reqVars == <<apiVars, interactionVars, allVars, sideVars>>

vars == <<storeVars, flowVars, channelVars, reqVars>>

(***************************************************************************)
(* JavaScript null / undefined / absent.                                   *)
(***************************************************************************)
NULL == "<null>"

(***************************************************************************)
(* services/channelStore.ts                                                *)
(***************************************************************************)
Guilds == {"g1", "g2"}
Channels == {"c1", "c2", "c3"}

\* A subset of validServers x validMaps, enough to tell the two components apart.
Configs ==
    { [server |-> "INX", map |-> "The Island"],
      [server |-> "INX", map |-> "Ragnarok"],
      [server |-> "Mesa", map |-> "The Island"] }

\* getChannelConfig's null.
NullConfig == [server |-> NULL, map |-> NULL]

\* A GuildStore is a function whose domain is the set of saved channel ids.
EmptyGuildStore == [c \in {} |-> NullConfig]

EmptyStore == [g \in Guilds |-> EmptyGuildStore]

\* A read that returns the content of the file although reading or parsing failed.
readStoreKeeps(content, readOk) == content

\* readStore: the parsed file, or {} when reading or parsing failed.
readStore(content, readOk) == IF readOk THEN content ELSE EmptyStore

\* A write that lands although it failed.
writeStoreAnyway(content, store, writeOk) == store

\* writeStore: the file after the write; a failed write is logged and swallowed.
writeStore(content, store, writeOk) == IF writeOk THEN store ELSE content

\* Mutants of keptChannels: no eviction at all; eviction keyed on the server alone.
keptChannelsNoEvict(guildStore, channelId, config) == DOMAIN guildStore

keptChannelsServerOnly(guildStore, channelId, config) ==
    { savedChannelId \in DOMAIN guildStore :
        ~ ( guildStore[savedChannelId].server = config.server
            /\ savedChannelId # channelId ) }

\* The loop of upsertChannelConfig: the channels of the guild that are kept.
keptChannels(guildStore, channelId, config) ==
    { savedChannelId \in DOMAIN guildStore :
        ~ ( guildStore[savedChannelId].server = config.server
            /\ guildStore[savedChannelId].map = config.map
            /\ savedChannelId # channelId ) }

\* upsertChannelConfig between readStore and writeStore.
upsertStore(store, guildId, channelId, config) ==
    LET kept == keptChannels(store[guildId], channelId, config)
    IN [store EXCEPT ![guildId] =
            [c \in kept \cup {channelId} |->
                IF c = channelId THEN config ELSE store[guildId][c]]]

\* removeChannelConfig between readStore and writeStore.
removeStore(store, guildId, channelId) ==
    [store EXCEPT ![guildId] =
        [c \in (DOMAIN store[guildId]) \ {channelId} |-> store[guildId][c]]]

getChannelConfig(content, guildId, channelId) ==
    IF channelId \in DOMAIN content[guildId]
    THEN content[guildId][channelId]
    ELSE NullConfig

getAllGuildChannels(content, guildId) == content[guildId]

\* The latest call, when it was an upsert whose read and write both succeeded.
Call(guildId, channelId, config) ==
    [guildId |-> guildId, channelId |-> channelId, config |-> config]

NoCall == [guildId |-> NULL, channelId |-> NULL, config |-> NullConfig]

upsertChannelConfig(guildId, channelId, config, readOk, writeOk) ==
    LET store == readStore(file, readOk)
        next == upsertStore(store, guildId, channelId, config)
    IN /\ file' = writeStore(file, next, writeOk)
       /\ last' = IF readOk /\ writeOk THEN Call(guildId, channelId, config) ELSE NoCall
       /\ prevChannel' =
            IF /\ readOk /\ writeOk
               /\ last.guildId = guildId
               /\ last.config = config
               /\ last.channelId # channelId
            THEN last.channelId
            ELSE NULL
       /\ UNCHANGED <<flowVars, channelVars, reqVars>>

removeChannelConfig(guildId, channelId, readOk, writeOk) ==
    LET store == readStore(file, readOk)
    IN /\ file' = IF channelId \in DOMAIN store[guildId]
                  THEN writeStore(file, removeStore(store, guildId, channelId), writeOk)
                  ELSE file
       /\ last' = NoCall
       /\ prevChannel' = NULL
       /\ UNCHANGED <<flowVars, channelVars, reqVars>>

\* No store call yet, the file absent.
IdleStore ==
    /\ file = EmptyStore
    /\ last = NoCall
    /\ prevChannel = NULL

\* No flow running.
IdleFlow ==
    /\ cmd = "update"
    /\ input = <<>>
    /\ spots = <<>>
    /\ len = 0
    /\ i = 0
    /\ lastType = NULL
    /\ idx = 0
    /\ messageCount = 0
    /\ out = <<>>
    /\ sent = 0
    /\ footers = <<>>
    /\ throws = 0
    /\ pc = "idle"

\* An empty channel.
IdleChannel ==
    /\ young = 0
    /\ old = 0
    /\ young0 = 0
    /\ old0 = 0
    /\ fetches = 0
    /\ batches = <<>>

\* No map listing asked.
IdleApi ==
    /\ response = NULL
    /\ maps = NULL

\* No interaction received.
IdleInteraction ==
    /\ request = NULL
    /\ interaction = NULL
    /\ deferral = "none"
    /\ acks = 0
    /\ replies = <<>>
    /\ file0 = NULL
    /\ handlers = <<>>

\* No all-mode loop running.
IdleAll ==
    /\ entries = <<>>
    /\ cursor = 0
    /\ success = 0
    /\ failed = 0
    /\ outcomes = <<>>

\* No header scan, no parse, no start of the bot, no populate loop.
IdleResolve ==
    /\ history = [padding |-> 0, texts |-> <<>>]
    /\ savedCfg = <<>>
    /\ scans = 0
    /\ resolved = NullConfig

IdleParse ==
    /\ headerText = <<>>
    /\ parsed = <<>>

IdleStart ==
    /\ env = NULL
    /\ proc = NULL

IdlePopulate ==
    /\ mapIndex = 0
    /\ threads = <<>>

\* No concurrent store call, no concurrent flow.
IdleConcurrent ==
    /\ calls = <<>>
    /\ writes = <<>>
    /\ tasks = <<>>
    /\ chan = <<>>
    /\ purged = {}

IdleSide == IdleResolve /\ IdleParse /\ IdleStart /\ IdlePopulate /\ IdleConcurrent

\* No request being handled.
IdleRequest == IdleApi /\ IdleInteraction /\ IdleAll /\ IdleSide

InitStore == IdleStore /\ IdleFlow /\ IdleChannel /\ IdleRequest

Upsert ==
    \E g \in Guilds, c \in Channels, cfg \in Configs, readOk \in BOOLEAN, writeOk \in BOOLEAN :
        upsertChannelConfig(g, c, cfg, readOk, writeOk)

Remove ==
    \E g \in Guilds, c \in Channels, readOk \in BOOLEAN, writeOk \in BOOLEAN :
        removeChannelConfig(g, c, readOk, writeOk)

NextStore == Upsert \/ Remove

SpecStore == InitStore /\ [][NextStore]_vars

(***************************************************************************)
(* services/channelStore.ts under concurrent callers.  A call is suspended *)
(* at its awaits: readStore awaits fs.readFile, writeStore awaits fs.mkdir *)
(* and fs.writeFile; what lies between runs without interruption, on the   *)
(* store object the call holds.  mkdir changes nothing of the file, so the *)
(* write is one step.                                                      *)
(***************************************************************************)
Callers == {"a", "b"}

\* One call of upsertChannelConfig ("put") or removeChannelConfig ("remove"): its
\* arguments, where it stands ("idle", "read", "write", "returned"), the store
\* readStore returned to it, the store object it holds after its changes, whether
\* its read and its write succeeded, and how many writes had landed when it read.
StoreCall(op, guildId, channelId, config) ==
    [op |-> op, guildId |-> guildId, channelId |-> channelId, config |-> config,
     at |-> "read", seen |-> EmptyStore, held |-> EmptyStore, readOk |-> FALSE,
     wrote |-> FALSE, readAt |-> 0]

IdleCall == [StoreCall(NULL, NULL, NULL, NullConfig) EXCEPT !.at = "idle"]

\* The contents of channel-store.json the callers start from.
ConcurrentStores ==
    { EmptyStore,
      [g \in Guilds |->
          IF g = "g1"
          THEN [c \in {"c1", "c2"} |->
                  IF c = "c1" THEN [server |-> "INX", map |-> "The Island"]
                  ELSE [server |-> "INX", map |-> "Ragnarok"]]
          ELSE [c \in {"c3"} |-> [server |-> "INX", map |-> "The Island"]]] }

concurrentRest == <<last, prevChannel, flowVars, channelVars, apiVars, interactionVars,
                    allVars, resolveVars, parseVars, startVars, populateVars, tasks, chan,
                    purged>>

\* The call is made: it runs up to the await of fs.readFile.
CallBegin(p) ==
    /\ calls[p].at = "idle"
    /\ \E g \in Guilds, c \in Channels, cfg \in Configs, op \in {"put", "remove"} :
          /\ op = "remove" => cfg = CHOOSE one \in Configs : TRUE
          /\ calls' = [calls EXCEPT ![p] = StoreCall(op, g, c, cfg)]
    /\ UNCHANGED <<file, writes, concurrentRest>>

\* What the call does to the store it read, up to the next await; a remove of a
\* channel that is not saved returns without writing.
heldAfterRead(call, store) ==
    IF call.op = "put" THEN upsertStore(store, call.guildId, call.channelId, call.config)
    ELSE IF call.channelId \in DOMAIN store[call.guildId]
    THEN removeStore(store, call.guildId, call.channelId)
    ELSE store

writesAfterRead(call, store) ==
    call.op = "put" \/ call.channelId \in DOMAIN store[call.guildId]

\* fs.readFile settles: readStore returns, the call changes its store object.
CallRead(p) ==
    /\ calls[p].at = "read"
    /\ \E readOk \in BOOLEAN :
          \E store \in {readStore(file, readOk)} :
              calls' = [calls EXCEPT ![p] =
                          [@ EXCEPT !.seen = store,
                                    !.held = heldAfterRead(calls[p], store),
                                    !.readOk = readOk,
                                    !.readAt = Len(writes),
                                    !.at = IF writesAfterRead(calls[p], store)
                                           THEN "write" ELSE "returned"]]
    /\ UNCHANGED <<file, writes, concurrentRest>>

\* A write that puts the change of the call on the content the file holds now.
writtenOnCurrent(call, content) == heldAfterRead(call, content)

\* JSON.stringify(store): the store object the call holds since its read.
written(call, content) == call.held

\* fs.writeFile settles: the whole file is replaced, or the failure is swallowed.
CallWrite(p) ==
    /\ calls[p].at = "write"
    /\ \E writeOk \in BOOLEAN :
          /\ file' = writeStore(file, written(calls[p], file), writeOk)
          /\ writes' = IF writeOk THEN Append(writes, p) ELSE writes
          /\ calls' = [calls EXCEPT ![p] = [@ EXCEPT !.wrote = writeOk, !.at = "returned"]]
    /\ UNCHANGED concurrentRest

InitConcurrent ==
    /\ file \in ConcurrentStores
    /\ last = NoCall
    /\ prevChannel = NULL
    /\ IdleFlow
    /\ IdleChannel
    /\ IdleApi
    /\ IdleInteraction
    /\ IdleAll
    /\ IdleResolve
    /\ IdleParse
    /\ IdleStart
    /\ IdlePopulate
    /\ calls = [p \in Callers |-> IdleCall]
    /\ writes = <<>>
    /\ tasks = <<>>
    /\ chan = <<>>
    /\ purged = {}

NextConcurrent == \E p \in Callers : CallBegin(p) \/ CallRead(p) \/ CallWrite(p)

SpecConcurrent == InitConcurrent /\ [][NextConcurrent]_vars

(***************************************************************************)
(* The renderer: spots.sort, formatCaveText and the emit loop of           *)
(* commands/update.ts (updateChannel), commands/caves.ts and               *)
(* commands/populatethread.ts.                                             *)
(***************************************************************************)
Flows == {"caves", "update", "populate"}

maxMessages == 50

\* The strings the model sorts, in the order String.prototype.localeCompare gives
\* them (the empty string first, then alphabetically).
collation == <<"", "A", "B", "cave", "farm", "underworld">>

collationRank(str) == CHOOSE k \in 1..Len(collation) : collation[k] = str

localeCompare(a, b) ==
    IF collationRank(a) < collationRank(b) THEN -1
    ELSE IF collationRank(a) > collationRank(b) THEN 1
    ELSE 0

\* value || '' for a string or null.
orEmpty(value) == IF value = NULL THEN "" ELSE value

\* value || fallback.
orElse(value, fallback) == IF value = NULL \/ value = "" THEN fallback ELSE value

\* The comparator handed to spots.sort.
compareSpots(a, b) ==
    IF a.type = "farm" /\ b.type # "farm" THEN 1
    ELSE IF a.type # "farm" /\ b.type = "farm" THEN -1
    ELSE IF a.type = b.type THEN localeCompare(orEmpty(a.name), orEmpty(b.name))
    ELSE localeCompare(orEmpty(a.type), orEmpty(b.type))

\* Array.prototype.sort as Node's V8 runs it on fewer than 64 elements: the leading
\* run is counted (and reversed when strictly descending), the rest is inserted by
\* binary insertion.  With a consistent comparator this is any stable sort.
RECURSIVE runEnd(_, _, _)
runEnd(a, k, descending) ==
    IF k > Len(a) THEN k - 1
    ELSE LET order == compareSpots(a[k], a[k - 1])
         IN IF (descending /\ order >= 0) \/ (~descending /\ order < 0)
            THEN k - 1
            ELSE runEnd(a, k + 1, descending)

runDescending(a) == compareSpots(a[2], a[1]) < 0

countAndMakeRun(a) ==
    LET n == runEnd(a, 3, runDescending(a))
    IN [length |-> n,
        array |-> IF runDescending(a)
                  THEN [k \in 1..Len(a) |-> IF k <= n THEN a[n + 1 - k] ELSE a[k]]
                  ELSE a]

RECURSIVE insertionPoint(_, _, _, _)
insertionPoint(a, pivot, left, right) ==
    IF left >= right THEN left
    ELSE LET mid == left + ((right - left) \div 2)
         IN IF compareSpots(pivot, a[mid]) < 0
            THEN insertionPoint(a, pivot, left, mid)
            ELSE insertionPoint(a, pivot, mid + 1, right)

RECURSIVE binaryInsertionSort(_, _)
binaryInsertionSort(a, start) ==
    IF start > Len(a) THEN a
    ELSE LET pivot == a[start]
             pos == insertionPoint(a, pivot, 1, start)
             b == [k \in 1..Len(a) |->
                      IF k < pos THEN a[k]
                      ELSE IF k = pos THEN pivot
                      ELSE IF k <= start THEN a[k - 1]
                      ELSE a[k]]
         IN binaryInsertionSort(b, start + 1)

sortSpots(a) ==
    IF Len(a) < 2 THEN a
    ELSE LET run == countAndMakeRun(a)
         IN binaryInsertionSort(run.array, run.length + 1)

\* String.prototype.trim and toLowerCase on the damage descriptors of the model.
trim(str) ==
    CASE str = "  " -> ""
      [] str = " Nothing " -> "Nothing"
      [] str = " Poison " -> "Poison"
      [] OTHER -> str

toLowerCase(str) ==
    CASE str = "Nothing" -> "nothing"
      [] str = "NOTHING" -> "nothing"
      [] str = "Poison" -> "poison"
      [] str = " Nothing " -> " nothing "
      [] str = " Poison " -> " poison "
      [] OTHER -> str

\* One line of a message: the template literal it comes from and its pieces.
Line(line, parts) == [line |-> line, parts |-> parts]

\* formatCaveText of update.ts: the damage line is left out for an absent, blank or
\* 'nothing' descriptor.
showCaveDamage(spot) ==
    LET caveDamageText == IF spot.caveDamage = NULL THEN NULL ELSE trim(spot.caveDamage)
    IN /\ caveDamageText # NULL
       /\ caveDamageText # ""
       /\ toLowerCase(caveDamageText) # "nothing"

formatCaveTextUpdate(spot, index) ==
    <<Line("title", <<"## ** ", index + 1, ". ", orElse(spot.name, "Unnamed Cave"), "**">>),
      Line("coords", <<"- Coords: ", spot.y, ", ", spot.x>>)>>
    \o (IF showCaveDamage(spot)
        THEN <<Line("damage", <<"- Cave Damage: ", trim(spot.caveDamage)>>)>> ELSE <<>>)
    \o (IF spot.description # NULL /\ spot.description # ""
        THEN <<Line("description", <<"Description:", spot.description>>)>> ELSE <<>>)
    \o (IF spot.videoUrl # NULL /\ spot.videoUrl # ""
        THEN <<Line("video", <<"Video:", spot.videoUrl>>)>> ELSE <<>>)

\* formatCaveText of caves.ts and populatethread.ts: the damage line is always there.
formatCaveTextCaves(spot, index) ==
    <<Line("title", <<"** ", index + 1, ". ", orElse(spot.name, "Unnamed Cave"), "**">>),
      Line("coords", <<"- Coords: ", spot.y, ", ", spot.x>>),
      Line("damage", <<"- Cave Damage: ", orElse(spot.caveDamage, "Unknown")>>)>>
    \o (IF spot.description # NULL /\ spot.description # ""
        THEN <<Line("description", <<"Description:", spot.description>>)>> ELSE <<>>)
    \o (IF spot.videoUrl # NULL /\ spot.videoUrl # ""
        THEN <<Line("video", <<"Video:", spot.videoUrl>>)>> ELSE <<>>)

formatCaveText(command, spot, index) ==
    IF command = "update" THEN formatCaveTextUpdate(spot, index)
    ELSE formatCaveTextCaves(spot, index)

\* The file names and URLs of the model, and the regular expressions on them.
VideoFiles == {"clip.mp4", "clip.MOV", "notes.txt"}

isVideoFile(url) == url \in {"clip.mp4", "clip.MOV"}

VideoUrls == {"https://youtu.be/v", "https://p.supabase.co/storage/v1/object/public/v"}

isSupabasePublicUrl(url) == url = "https://p.supabase.co/storage/v1/object/public/v"

hasVideoFile(spot) == spot.videoFile # NULL /\ spot.videoFile # "" /\ isVideoFile(spot.videoFile)

hasExternalVideoLink(spot) ==
    spot.videoUrl # NULL /\ spot.videoUrl # "" /\ ~isSupabasePublicUrl(spot.videoUrl)

\* A message sent to the channel.  spot and type tell which record a body or a
\* category header was sent for (0 and null for the other messages).
Message(kind, content, files, spot, type) ==
    [kind |-> kind, content |-> content, files |-> files, spot |-> spot, type |-> type]

datasetHeader(command, server, map) ==
    Message("dataset",
            IF command = "populate" THEN <<Line("header", <<server, " - ", map>>)>>
            ELSE <<Line("header", <<"__***# ", server, " - ", map, "***__">>)>>,
            FALSE, 0, NULL)

categoryHeader(command, spot) ==
    Message("category",
            CASE command = "update" ->
                   <<Line("header", <<"# *----- ", orElse(spot.type, "Unknown"), " -----*">>)>>
              [] command = "caves" ->
                   <<Line("header", <<"__***# ", orElse(spot.type, "Unknown"), "***__">>)>>
              [] OTHER -> <<Line("header", <<orElse(spot.type, "Unknown")>>)>>,
            FALSE, 0, spot.type)

separatorLine == Line("separator", <<"--------------------------------">>)

truncationFooter(count) ==
    Message("footer", <<Line("footer", <<"... and ", count, " more spots.">>)>>, FALSE, 0, NULL)

attachmentBody(command, spot, index) ==
    Message("body", formatCaveText(command, spot, index), TRUE, spot.id, spot.type)

separatorMessage == Message("separator", <<separatorLine>>, FALSE, 0, NULL)

fallbackBody(command, spot, index) ==
    Message("body",
            formatCaveText(command, spot, index)
                \o <<Line("failed", <<"[Failed to attach video file]">>), separatorLine>>,
            FALSE, spot.id, spot.type)

plainBody(command, spot, index) ==
    Message("body",
            IF hasExternalVideoLink(spot) THEN formatCaveText(command, spot, index)
            ELSE formatCaveText(command, spot, index) \o <<separatorLine>>,
            FALSE, spot.id, spot.type)

\* The count of the success report: Math.min(messageCount, maxMessages).
reportedCount(count) == IF count < maxMessages THEN count ELSE maxMessages

\* if (messageCount >= maxMessages)
truncates(count) == count >= maxMessages

\* The break that follows the footer.
footerFallsThrough == FALSE

footerBreaks == TRUE

\* if (spot.type !== lastType)
typeChanged(spot, previousType) == spot.type # previousType

\* The result of one pass through the loop body.
Pass(sends, count, type, index, exit) ==
    [sends |-> sends, messageCount |-> count, lastType |-> type, idx |-> index, exit |-> exit]

\* A record part that sends the separator before the message with the file.
emitRecordSeparatorFirst(command, spot, sends, n, count, type, index, fetchOk, failAt) ==
    IF hasVideoFile(spot) /\ fetchOk /\ failAt = 0
    THEN Pass(sends \o <<separatorMessage, attachmentBody(command, spot, index)>>,
              count + 2, type, index + 1, "next")
    ELSE Pass(sends \o <<plainBody(command, spot, index)>>, count + 1, type, index + 1, "next")

\* A record part in which a failed download of the file ends the flow.
emitRecordAborts(command, spot, sends, n, count, type, index, fetchOk, failAt) ==
    IF hasVideoFile(spot)
    THEN IF ~fetchOk \/ failAt # 0
         THEN Pass(sends, count, type, index, "throw")
         ELSE Pass(sends \o <<attachmentBody(command, spot, index), separatorMessage>>,
                   count + 2, type, index + 1, "next")
    ELSE Pass(sends \o <<plainBody(command, spot, index)>>, count + 1, type, index + 1, "next")

\* The record part of the loop body, after the footer and header parts: sends are
\* the messages sent so far in this pass, n counts the sends tried so far, failAt is
\* the send of this pass that throws (0: none), fetchOk tells whether the download
\* of the video file succeeds.
emitRecord(command, spot, sends, n, count, type, index, fetchOk, failAt) ==
    IF hasVideoFile(spot)
    THEN IF ~fetchOk
         THEN IF failAt = n + 1
              THEN Pass(sends, count, type, index, "throw")
              ELSE Pass(sends \o <<fallbackBody(command, spot, index)>>,
                        count + 1, type, index + 1, "next")
         ELSE IF failAt = n + 1
         THEN Pass(sends \o <<fallbackBody(command, spot, index)>>,
                   count + 1, type, index + 1, "next")
         ELSE IF failAt = n + 2
         THEN Pass(sends \o <<attachmentBody(command, spot, index), fallbackBody(command, spot, index)>>,
                   count + 1, type, index + 1, "next")
         ELSE Pass(sends \o <<attachmentBody(command, spot, index), separatorMessage>>,
                   count + 2, type, index + 1, "next")
    ELSE IF failAt = n + 1
         THEN Pass(sends, count, type, index, "throw")
         ELSE Pass(sends \o <<plainBody(command, spot, index)>>,
                   count + 1, type, index + 1, "next")

\* The category-header part of the loop body, then the record part.
emitCategory(command, spot, sends, n, count, type, index, fetchOk, failAt) ==
    IF typeChanged(spot, type)
    THEN IF failAt = n + 1
         THEN Pass(sends, count, type, index, "throw")
         ELSE emitRecord(command, spot, sends \o <<categoryHeader(command, spot)>>, n + 1,
                         count + 1, spot.type, 0, fetchOk, failAt)
    ELSE emitRecord(command, spot, sends, n, count, type, index, fetchOk, failAt)

\* One pass through the body of `for (const spot of spots)`.
loopBody(command, spot, length, count, type, index, fetchOk, failAt) ==
    IF truncates(count)
    THEN IF failAt = 1
         THEN Pass(<<>>, count, type, index, "throw")
         ELSE IF footerBreaks
         THEN Pass(<<truncationFooter(length - count)>>, count, type, index, "break")
         ELSE emitCategory(command, spot, <<truncationFooter(length - count)>>, 1,
                           count, type, index, fetchOk, failAt)
    ELSE emitCategory(command, spot, <<>>, 0, count, type, index, fetchOk, failAt)

(***************************************************************************)
(* The flow of one channel: fetchSpots, spots.sort, the clear loop (update *)
(* only), the dataset header, the emit loop.                               *)
(***************************************************************************)
\* Bounds of the model.
MaxLen == 3
MaxSpots == 26
MaxUpdateLen == 2
MaxYoung == 250
MaxOld == 1
MaxThrows == 1
MaxFetches == 5
MaxStale == 101

\* The (server, map) the flow renders.
target == [server |-> "INX", map |-> "The Island"]

\* The (server, map) of the header: what update-here has resolved, the map the
\* populate loop stands at, else the target.
rendered ==
    IF resolved # NullConfig THEN resolved
    ELSE IF cmd = "populate" /\ maps # NULL /\ mapIndex < Len(maps)
    THEN [server |-> target.server, map |-> maps[mapIndex + 1]]
    ELSE target

\* messages.fetch({ limit: 100 })
fetchLimit == 100

\* A record of the catalog with only its type and name given.
Spot(type, name) ==
    [id |-> 0, type |-> type, name |-> name, x |-> "x", y |-> "y", caveDamage |-> NULL,
     description |-> NULL, videoUrl |-> NULL, videoFile |-> NULL]

\* The record with its place in the catalog's answer as id.
numbered(records) == [k \in 1..Len(records) |-> [records[k] EXCEPT !.id = k]]

SortTypes == {"cave", "farm", "underworld", NULL, ""}
SortNames == {"A", "B"}
SortRecords == { Spot(type, name) : type \in SortTypes, name \in SortNames }

DamageValues == {NULL, "", "Nothing", "nothing", "NOTHING", "  ", " Nothing ", "Poison", " Poison "}
FormatRecords ==
    { [Spot("cave", name) EXCEPT !.caveDamage = damage, !.description = description,
                                 !.videoUrl = videoUrl, !.videoFile = videoFile] :
        name \in {NULL, "A"}, damage \in DamageValues, description \in {NULL, "text"},
        videoUrl \in {NULL} \cup VideoUrls, videoFile \in {NULL} \cup VideoFiles }

UpdateRecords == { Spot("cave", "A"), [Spot("farm", "B") EXCEPT !.videoFile = "clip.mp4"] }

CapRecords ==
    { [Spot(type, "A") EXCEPT !.videoFile = videoFile] :
        type \in {"cave", "farm"}, videoFile \in {NULL, "clip.mp4"} }

SeqsUpTo(S, n) == UNION { [1..k -> S] : k \in 0..n }

\* A flow that goes on to the sort and the clear loop whatever the catalog answered.
afterFetchGoesOn(apiOk, records) == IF ~apiOk THEN "threw" ELSE "sort"

\* What follows fetchSpots: its throw leaves the flow, if (!spots || spots.length
\* === 0) returns before the sort and the clear loop.
afterFetch(apiOk, records) ==
    IF ~apiOk THEN "threw"
    ELSE IF Len(records) = 0 THEN "noSpots"
    ELSE "sort"

\* const spots = await fetchSpots(server, map, 'modded'), and the test for no spots.
FetchSpots ==
    /\ pc = "fetch"
    /\ \E apiOk \in BOOLEAN :
          /\ pc' = afterFetch(apiOk, input)
          /\ spots' = IF apiOk THEN input ELSE spots
    /\ UNCHANGED <<cmd, input, len, i, lastType, idx, messageCount, out, sent, footers, throws>>
    /\ UNCHANGED <<storeVars, channelVars, reqVars>>

\* A flow that never clears the channel.
afterSortNoClear(command) == "header"

\* The step that follows the sort: the clear loop in updateChannel, the dataset
\* header in the flows that do not clear.
afterSort(command) == IF command = "update" THEN "clear" ELSE "header"

\* spots.sort(...)
SortSpots ==
    /\ pc = "sort"
    /\ spots' = sortSpots(spots)
    /\ len' = Len(spots)
    /\ pc' = afterSort(cmd)
    /\ UNCHANGED <<cmd, input, i, lastType, idx, messageCount, out, sent, footers, throws>>
    /\ UNCHANGED <<storeVars, channelVars, reqVars>>

\* if (messages.size < 100) { hasMoreMessages = false; }
hasMoreMessagesTight(size) == ~(size <= fetchLimit)

hasMoreMessages(size) == ~(size < fetchLimit)

\* The messages one fetch returned, by age: those the flow itself has sent, the
\* earlier ones younger than 14 days, the earlier ones of 14 days or more.
Batch(fresh, youngs, olds) == [fresh |-> fresh, young |-> youngs, old |-> olds]

\* messages.fetch({ limit: 100 }): at most 100 messages, newest first.
fetchMessages(fresh, youngs, olds) ==
    LET freshFetched == IF fresh < fetchLimit THEN fresh ELSE fetchLimit
        youngFetched == IF youngs < fetchLimit - freshFetched THEN youngs
                        ELSE fetchLimit - freshFetched
        oldFetched == IF olds < fetchLimit - freshFetched - youngFetched THEN olds
                      ELSE fetchLimit - freshFetched - youngFetched
    IN Batch(freshFetched, youngFetched, oldFetched)

sizeOf(messages) == messages.fresh + messages.young + messages.old

\* A filter that lets every fetched message through.
deletableMessagesAll(messages) == messages

\* messages.filter(msg => (Date.now() - msg.createdTimestamp) < 14 days)
deletableMessages(messages) == [messages EXCEPT !.old = 0]

\* A catch of the clear loop that goes on with the dataset header.
onClearErrorGoesOn(command) == "header"

\* The catch of the clear loop: the failure is told and updateChannel returns.
onClearError(command) == "clearFailed"

\* One pass of the clear loop of updateChannel: fetch at most 100 messages, newest
\* first, bulk-delete those younger than 14 days, go on after a full batch.  The
\* fetches are counted up to MaxFetches.
ClearBatch ==
    /\ pc = "clear"
    /\ \E fetchOk \in BOOLEAN, deleteOk \in BOOLEAN :
          LET messages == fetchMessages(sent + Len(footers), young, old)
              size == sizeOf(messages)
              deletable == deletableMessages(messages)
              counted == IF fetches < MaxFetches THEN fetches + 1 ELSE fetches
          IN IF ~fetchOk
             THEN pc' = onClearError(cmd) /\ UNCHANGED <<young, old, fetches, batches>>
             ELSE IF size = 0
             THEN pc' = "header" /\ fetches' = counted /\ UNCHANGED <<young, old, batches>>
             ELSE IF sizeOf(deletable) > 0 /\ ~deleteOk
             THEN pc' = onClearError(cmd) /\ fetches' = counted
                  /\ UNCHANGED <<young, old, batches>>
             ELSE /\ young' = young - deletable.young
                  /\ old' = old - deletable.old
                  /\ fetches' = counted
                  /\ batches' = IF sizeOf(deletable) > 0
                                THEN Append(batches, sizeOf(deletable)) ELSE batches
                  /\ pc' = IF hasMoreMessages(size) THEN "clear" ELSE "header"
    /\ UNCHANGED <<cmd, input, spots, len, i, lastType, idx, messageCount, out, sent, footers,
                   throws>>
    /\ UNCHANGED <<storeVars, young0, old0, reqVars>>

\* The dataset header (the starter message of the new thread in populate), then
\* lastType = null, idx = 0, messageCount = 1.
SendHeader ==
    /\ pc = "header"
    /\ \E sendOk \in BOOLEAN :
          IF sendOk
          THEN /\ out' = Append(out, datasetHeader(cmd, rendered.server, rendered.map))
               /\ sent' = sent + 1
               /\ pc' = "emit"
               /\ throws' = throws
          ELSE /\ throws < MaxThrows
               /\ pc' = "threw"
               /\ throws' = throws + 1
               /\ UNCHANGED <<out, sent>>
    /\ lastType' = NULL
    /\ idx' = 0
    /\ messageCount' = 1
    /\ i' = 0
    /\ UNCHANGED <<cmd, input, spots, len, footers>>
    /\ UNCHANGED <<storeVars, channelVars, reqVars>>

\* A send of the pass threw: the pass ended in a throw, or sent the fallback body
\* although the video file had been downloaded.
thrown(pass, fetchOk) ==
    \/ pass.exit = "throw"
    \/ /\ fetchOk
       /\ \E k \in 1..Len(pass.sends) :
             /\ pass.sends[k].kind = "body"
             /\ \E l \in 1..Len(pass.sends[k].content) :
                   pass.sends[k].content[l].line = "failed"

footersOf(sends) ==
    LET F[k \in 0..Len(sends)] ==
          IF k = 0 THEN <<>>
          ELSE IF sends[k].kind = "footer"
               THEN Append(F[k - 1], sends[k].content[1].parts[2])
               ELSE F[k - 1]
    IN F[Len(sends)]

\* The state after a pass of the emit loop; keep tells whether out records the
\* messages.
afterPass(pass, foot, threw, keep) ==
    /\ threw => throws < MaxThrows
    /\ throws' = IF threw THEN throws + 1 ELSE throws
    /\ out' = IF keep THEN out \o pass.sends ELSE out
    /\ sent' = sent + Len(pass.sends) - Len(foot)
    /\ footers' = footers \o foot
    /\ messageCount' = pass.messageCount
    /\ lastType' = pass.lastType
    /\ idx' = pass.idx
    /\ i' = IF pass.exit = "next" THEN i + 1 ELSE i
    /\ pc' = CASE pass.exit = "throw" -> "threw"
               [] pass.exit = "break" -> "sent"
               [] OTHER -> IF i + 1 = len THEN "sent" ELSE "emit"

\* One pass of the emit loop on spot.
emitSpot(spot, fetchOk, failAt, keep) ==
    \E pass \in {loopBody(cmd, spot, len, messageCount, lastType, idx, fetchOk, failAt)} :
        \E foot \in {footersOf(pass.sends)} :
            afterPass(pass, foot, thrown(pass, fetchOk), keep)

\* The send of a pass that throws (0: none), while throws may still be counted.
failures == IF throws < MaxThrows THEN 0..3 ELSE {0}

\* for (const spot of spots) { ... }, one pass.
EmitNext ==
    /\ pc = "emit"
    /\ i < len
    /\ \E fetchOk \in BOOLEAN, failAt \in failures : emitSpot(spots[i + 1], fetchOk, failAt, TRUE)
    /\ UNCHANGED <<cmd, input, spots, len>>
    /\ UNCHANGED <<storeVars, channelVars, reqVars>>

\* The same pass when the sorted array is long: its next element is drawn when the
\* loop reaches it, in an order the comparator accepts after the previous one.
EmitNextOfMany ==
    /\ pc = "emit"
    /\ i < len
    /\ \E record \in CapRecords, fetchOk \in BOOLEAN, failAt \in failures :
          /\ i > 0 => compareSpots([record EXCEPT !.type = lastType], record) <= 0
          /\ emitSpot([record EXCEPT !.id = i + 1], fetchOk, failAt, FALSE)
    /\ UNCHANGED <<cmd, input, spots, len>>
    /\ UNCHANGED <<storeVars, channelVars, reqVars>>

NextFlow == FetchSpots \/ SortSpots \/ ClearBatch \/ SendHeader \/ EmitNext

NextCap == SendHeader \/ EmitNextOfMany

\* A flow about to fetch its spots.
StartFlow(commands, inputs, youngs, olds) ==
    /\ cmd \in commands
    /\ input \in inputs
    /\ spots = <<>>
    /\ len = 0
    /\ i = 0
    /\ lastType = NULL
    /\ idx = 0
    /\ messageCount = 0
    /\ out = <<>>
    /\ sent = 0
    /\ footers = <<>>
    /\ throws = 0
    /\ pc = "fetch"
    /\ young \in youngs
    /\ old \in olds
    /\ young0 = young
    /\ old0 = old
    /\ fetches = 0
    /\ batches = <<>>

InitSort ==
    /\ IdleStore
    /\ IdleRequest
    /\ StartFlow(Flows, { numbered(r) : r \in SeqsUpTo(SortRecords, MaxLen) }, {0}, {0})

InitFormat ==
    /\ IdleStore
    /\ IdleRequest
    /\ StartFlow(Flows, { numbered(<<r>>) : r \in FormatRecords }, {0}, {0})

InitUpdate ==
    /\ IdleStore
    /\ IdleRequest
    /\ StartFlow({"update"}, { numbered(r) : r \in SeqsUpTo(UpdateRecords, MaxUpdateLen) },
                 0..MaxYoung, 0..MaxOld)

\* A flow that has fetched, sorted (and cleared) and is about to send the header of
\* a long array.
InitCap ==
    /\ IdleStore
    /\ IdleRequest
    /\ IdleChannel
    /\ cmd = "update"
    /\ input = <<>>
    /\ spots = <<>>
    /\ len \in 1..MaxSpots
    /\ i = 0
    /\ lastType = NULL
    /\ idx = 0
    /\ messageCount = 0
    /\ out = <<>>
    /\ sent = 0
    /\ footers = <<>>
    /\ throws = 0
    /\ pc = "header"

SpecSort == InitSort /\ [][NextFlow]_vars

SpecFormat == InitFormat /\ [][NextFlow]_vars

SpecUpdate == InitUpdate /\ [][NextFlow]_vars

SpecCap == InitCap /\ [][NextCap]_vars

\* updateChannel on channels that hold a full batch of messages of 14 days or more.
\* The flow keeps running: a step that can be taken without a failure of Discord or
\* of the catalog is taken in the end, and no failure is bound to happen.  A pass of
\* the clear loop past MaxFetches that deletes nothing leaves the state as it is.
InitClear ==
    /\ IdleStore
    /\ IdleRequest
    /\ StartFlow({"update"}, { numbered(r) : r \in SeqsUpTo(UpdateRecords, MaxUpdateLen) },
                 {0, 1, fetchLimit}, {0} \cup ((MaxStale - 2)..MaxStale))

SpecClear ==
    InitClear /\ [][NextFlow]_vars /\ WF_vars(NextFlow /\ pc' \notin {"clearFailed", "threw"})

(***************************************************************************)
(* updateChannel run by several requests on one channel.  Each flow is     *)
(* suspended at its awaits (messages.fetch, bulkDelete, the sleep, send);  *)
(* the messages of the channel are shared.  The records of a flow are      *)
(* TaskRecords, fetched and sorted before the clear loop; every message is *)
(* younger than 14 days.                                                   *)
(***************************************************************************)
MaxRuns == 2

\* What the catalog answers to each flow.
TaskRecords == <<Spot("cave", "A")>>

Updaters == {"u1", "u2"}

\* A message of the shared channel: who sent it, in which of its runs, as which of
\* the messages of that run, and its kind.
Posted(by, run, seq, kind) == [by |-> by, run |-> run, seq |-> seq, kind |-> kind]

\* Where a flow stands, the messages of its latest fetch, how many runs it has
\* started and how many messages it has sent in this run.
Task(at, fetched, runs, n) == [at |-> at, fetched |-> fetched, runs |-> runs, n |-> n]

taskRest == <<storeVars, flowVars, channelVars, apiVars, interactionVars, allVars,
              resolveVars, parseVars, startVars, populateVars, calls, writes>>

\* messages.fetch({ limit: 100 }): the newest messages, at most 100.
newest(content) ==
    { content[k] : k \in (IF Len(content) > fetchLimit THEN Len(content) - fetchLimit + 1
                          ELSE 1)..Len(content) }

\* A bulk delete that spares the messages of flows that are still running.
bulkDeleteOfOthersSpared(content, fetched) ==
    SelectSeq(content,
              LAMBDA m : m \notin fetched \/ (m.by \in Updaters /\ tasks[m.by].at # "idle"))

\* targetChannel.bulkDelete(deletableMessages): the fetched messages leave the
\* channel, whoever sent them.
bulkDelete(content, fetched) == SelectSeq(content, LAMBDA m : m \notin fetched)

\* updateChannel is called and has fetched and sorted its records.
TaskStart(t) ==
    /\ tasks[t].at = "idle"
    /\ tasks[t].runs < MaxRuns
    /\ tasks' = [tasks EXCEPT ![t] = Task("fetch", {}, @.runs + 1, 0)]
    /\ UNCHANGED <<chan, purged, taskRest>>

\* const messages = await targetChannel.messages.fetch({ limit: 100 })
TaskFetch(t) ==
    /\ tasks[t].at = "fetch"
    /\ \E fetchOk \in BOOLEAN :
          tasks' = [tasks EXCEPT ![t] =
                      IF ~fetchOk THEN [@ EXCEPT !.at = "idle"]
                      ELSE IF newest(chan) = {} THEN [@ EXCEPT !.at = "header", !.fetched = {}]
                      ELSE [@ EXCEPT !.at = "delete", !.fetched = newest(chan)]]
    /\ UNCHANGED <<chan, purged, taskRest>>

\* await bulkDelete(deletableMessages), the test of messages.size and the sleep.
TaskDelete(t) ==
    /\ tasks[t].at = "delete"
    /\ \E deleteOk \in BOOLEAN :
          IF ~deleteOk
          THEN /\ tasks' = [tasks EXCEPT ![t] = [@ EXCEPT !.at = "idle"]]
               /\ UNCHANGED <<chan, purged>>
          ELSE /\ chan' = bulkDelete(chan, tasks[t].fetched)
               /\ purged' = purged \cup
                    { [by |-> m.by, deleter |-> t,
                       during |-> m.by \in Updaters /\ m.by # t /\ tasks[m.by].at # "idle"
                                    /\ tasks[m.by].runs = m.run] :
                        m \in { chan[k] : k \in 1..Len(chan) } \cap tasks[t].fetched }
               /\ tasks' = [tasks EXCEPT ![t] =
                              [@ EXCEPT !.at = IF hasMoreMessages(Cardinality(tasks[t].fetched))
                                               THEN "fetch" ELSE "header"]]
    /\ UNCHANGED taskRest

\* await targetChannel.send(...): the dataset header, then one body for each record.
TaskSend(t) ==
    /\ tasks[t].at \in {"header", "emit"}
    /\ \E sendOk \in BOOLEAN :
          IF ~sendOk
          THEN /\ tasks' = [tasks EXCEPT ![t] = [@ EXCEPT !.at = "idle"]]
               /\ chan' = chan
          ELSE /\ chan' = Append(chan, Posted(t, tasks[t].runs, tasks[t].n + 1,
                                              IF tasks[t].at = "header" THEN "dataset"
                                              ELSE "body"))
               /\ tasks' = [tasks EXCEPT ![t] =
                              [@ EXCEPT !.n = @ + 1,
                                        !.at = IF tasks[t].n = Len(TaskRecords) THEN "idle"
                                               ELSE "emit"]]
    /\ UNCHANGED <<purged, taskRest>>

TaskStep(t) == TaskFetch(t) \/ TaskDelete(t) \/ TaskSend(t)

InitTasks ==
    /\ IdleStore
    /\ IdleFlow
    /\ IdleChannel
    /\ IdleApi
    /\ IdleInteraction
    /\ IdleAll
    /\ IdleResolve
    /\ IdleParse
    /\ IdleStart
    /\ IdlePopulate
    /\ calls = <<>>
    /\ writes = <<>>
    /\ tasks = [t \in Updaters |-> Task("idle", {}, 0, 0)]
    /\ chan \in {<<>>, <<Posted("earlier", 0, 1, "body")>>}
    /\ purged = {}

NextTasks ==
    \E t \in Updaters : TaskStart(t) \/ TaskFetch(t) \/ TaskDelete(t) \/ TaskSend(t)

SpecTasks == InitTasks /\ [][NextTasks]_vars

(***************************************************************************)
(* services/apiService.ts: fetchMapsForServer.                             *)
(***************************************************************************)
MaxItems == 3

\* The fallback list of fetchMapsForServer.
fallbackMaps ==
    << "The Island", "The Center", "Scorched Earth", "Ragnarok", "Aberration", "Extinction",
       "Valguero", "Genesis: Part 1", "Crystal Isles", "Genesis: Part 2", "Lost Island",
       "Fjordur" >>

\* The elements of a JSON array: a string, an object with its map field (a string, a
\* number or absent), null, a number.
JsonString(text) == [is |-> "string", text |-> text, mapIs |-> "undefined", map |-> NULL]

JsonObject(mapIs, map) == [is |-> "object", text |-> NULL, mapIs |-> mapIs, map |-> map]

JsonOther(is) == [is |-> is, text |-> NULL, mapIs |-> "undefined", map |-> NULL]

Items ==
    { JsonString("The Island"), JsonString("Atlantis"),
      JsonObject("string", "The Island"), JsonObject("string", "Ragnarok"),
      JsonObject("number", "7"), JsonObject("undefined", NULL),
      JsonOther("null"), JsonOther("number") }

\* What the listing call meets: fetch rejected, a status that is not ok, a body that
\* is not JSON, a JSON body that is not an array, a JSON array.
Responses ==
    { [outcome |-> o, isArray |-> FALSE, items |-> <<>>] :
        o \in {"rejected", "notOk", "notJson", "json"} }
    \cup { [outcome |-> "json", isArray |-> TRUE, items |-> b] : b \in SeqsUpTo(Items, MaxItems) }

\* typeof item === 'string' ? item : item?.map
mapField(item) ==
    IF item.is = "string" THEN [is |-> "string", text |-> item.text]
    ELSE [is |-> item.mapIs, text |-> item.map]

isString(m) == m.is = "string"

\* data.map(...).filter((m) => typeof m === 'string')
mapNames(items) ==
    LET kept == SelectSeq([k \in 1..Len(items) |-> mapField(items[k])], isString)
    IN [k \in 1..Len(kept) |-> kept[k].text]

\* Array.from(new Set(names)): the first occurrences, in order.
uniqueOf(names) ==
    LET U[k \in 0..Len(names)] ==
          IF k = 0 THEN <<>>
          ELSE IF \E j \in 1..Len(U[k - 1]) : U[k - 1][j] = names[k]
               THEN U[k - 1]
               ELSE Append(U[k - 1], names[k])
    IN U[Len(names)]

\* A listing returned whatever it derived.
hasMapsAlways(unique) == TRUE

\* if (unique.length > 0)
hasMaps(unique) == Len(unique) > 0

fetchMapsForServer(answer) ==
    IF answer.outcome # "json" THEN fallbackMaps
    ELSE LET unique == uniqueOf(IF answer.isArray THEN mapNames(answer.items) ELSE <<>>)
         IN IF hasMaps(unique) THEN unique ELSE fallbackMaps

\* One call of fetchMapsForServer.
FetchMaps ==
    /\ maps = NULL
    /\ maps' = fetchMapsForServer(response)
    /\ UNCHANGED <<storeVars, flowVars, channelVars, response, sideVars, interactionVars, allVars>>

InitMaps ==
    /\ IdleStore
    /\ IdleFlow
    /\ IdleChannel
    /\ IdleInteraction
    /\ IdleAll
    /\ IdleSide
    /\ response \in Responses
    /\ maps = NULL

NextMaps == FetchMaps

SpecMaps == InitMaps /\ [][NextMaps]_vars

(***************************************************************************)
(* commands/update.ts: parseServerAndMapFromHeader, on the texts of the    *)
(* messages as strings of characters.                                      *)
(***************************************************************************)
validMaps ==
    << "The Island", "The Center", "Scorched Earth", "Ragnarok", "Aberration", "Extinction",
       "Valguero", "Genesis: Part 1", "Crystal Isles", "Genesis: Part 2", "Lost Island",
       "Fjordur" >>

validServers == <<"INX", "Fusion", "Mesa">>

\* The elements of an array.
elementsOf(array) == { array[k] : k \in 1..Len(array) }

\* The characters of the strings of the model; emdash is the character U+2014 and
\* backquote the character U+0060.  The
\* pieces of the template literals stand with the line feeds and the back quotes
\* the templates put around them.
chars(str) ==
    CASE str = "__***# " -> <<"_", "_", "*", "*", "*", "#", " ">>
      [] str = " - " -> <<" ", "-", " ">>
      [] str = "***__" -> <<"*", "*", "*", "_", "_", "\n">>
      [] str = "# *----- " -> <<"#", " ", "*", "emdash", "emdash", "emdash", "emdash",
             "emdash", " ">>
      [] str = " -----*" -> <<" ", "emdash", "emdash", "emdash", "emdash", "emdash", "*",
             "\n">>
      [] str = "## ** " -> <<"#", "#", " ", "*", "*", " ">>
      [] str = "** " -> <<"*", "*", " ">>
      [] str = ". " -> <<".", " ">>
      [] str = "**" -> <<"*", "*">>
      [] str = "- Coords: " -> <<"-", " ", "C", "o", "o", "r", "d", "s", ":", " ">>
      [] str = ", " -> <<",", " ">>
      [] str = "- Cave Damage: " -> <<"-", " ", "C", "a", "v", "e", " ", "D", "a", "m",
             "a", "g", "e", ":", " ">>
      [] str = "Description:" -> <<"\n", "D", "e", "s", "c", "r", "i", "p", "t", "i", "o",
             "n", ":", "\n", "backquote", "backquote", "backquote", "\n">>
      [] str = "Video:" -> <<"V", "i", "d", "e", "o", ":", "\n", " ">>
      [] str = "--------------------------------" -> <<"-", "-", "-", "-", "-", "-", "-",
             "-", "-", "-", "-", "-", "-", "-", "-", "-", "-", "-", "-", "-", "-", "-",
             "-", "-", "-", "-", "-", "-", "-", "-", "-", "-">>
      [] str = "[Failed to attach video file]" -> <<"[", "F", "a", "i", "l", "e", "d", " ",
             "t", "o", " ", "a", "t", "t", "a", "c", "h", " ", "v", "i", "d", "e", "o",
             " ", "f", "i", "l", "e", "]">>
      [] str = "... and " -> <<".", ".", ".", " ", "a", "n", "d", " ">>
      [] str = " more spots." -> <<" ", "m", "o", "r", "e", " ", "s", "p", "o", "t", "s",
             ".", " ", "U", "s", "e", " ", "t", "h", "e", " ", "c", "o", "m", "m", "a",
             "n", "d", " ", "a", "g", "a", "i", "n", " ", "w", "i", "t", "h", " ", "m",
             "o", "r", "e", " ", "s", "p", "e", "c", "i", "f", "i", "c", " ", "p", "a",
             "r", "a", "m", "e", "t", "e", "r", "s", " ", "t", "o", " ", "s", "e", "e",
             " ", "a", "l", "l", " ", "s", "p", "o", "t", "s", ".">>
      [] str = "INX" -> <<"I", "N", "X">>
      [] str = "Fusion" -> <<"F", "u", "s", "i", "o", "n">>
      [] str = "Mesa" -> <<"M", "e", "s", "a">>
      [] str = "Atlas" -> <<"A", "t", "l", "a", "s">>
      [] str = "inx" -> <<"i", "n", "x">>
      [] str = "The Island" -> <<"T", "h", "e", " ", "I", "s", "l", "a", "n", "d">>
      [] str = "The Center" -> <<"T", "h", "e", " ", "C", "e", "n", "t", "e", "r">>
      [] str = "Scorched Earth" -> <<"S", "c", "o", "r", "c", "h", "e", "d", " ", "E", "a",
             "r", "t", "h">>
      [] str = "Ragnarok" -> <<"R", "a", "g", "n", "a", "r", "o", "k">>
      [] str = "Aberration" -> <<"A", "b", "e", "r", "r", "a", "t", "i", "o", "n">>
      [] str = "Extinction" -> <<"E", "x", "t", "i", "n", "c", "t", "i", "o", "n">>
      [] str = "Valguero" -> <<"V", "a", "l", "g", "u", "e", "r", "o">>
      [] str = "Genesis: Part 1" -> <<"G", "e", "n", "e", "s", "i", "s", ":", " ", "P",
             "a", "r", "t", " ", "1">>
      [] str = "Crystal Isles" -> <<"C", "r", "y", "s", "t", "a", "l", " ", "I", "s", "l",
             "e", "s">>
      [] str = "Genesis: Part 2" -> <<"G", "e", "n", "e", "s", "i", "s", ":", " ", "P",
             "a", "r", "t", " ", "2">>
      [] str = "Lost Island" -> <<"L", "o", "s", "t", " ", "I", "s", "l", "a", "n", "d">>
      [] str = "Fjordur" -> <<"F", "j", "o", "r", "d", "u", "r">>
      [] str = "Atlantis" -> <<"A", "t", "l", "a", "n", "t", "i", "s">>
      [] str = "cave" -> <<"c", "a", "v", "e">>
      [] str = "farm" -> <<"f", "a", "r", "m">>
      [] str = "underworld" -> <<"u", "n", "d", "e", "r", "w", "o", "r", "l", "d">>
      [] str = "Unknown" -> <<"U", "n", "k", "n", "o", "w", "n">>
      [] str = "Mesa - Ragnarok" -> <<"M", "e", "s", "a", " ", "-", " ", "R", "a", "g",
             "n", "a", "r", "o", "k">>
      [] str = "semi-open" -> <<"s", "e", "m", "i", "-", "o", "p", "e", "n">>
      [] str = "A" -> <<"A">>
      [] str = "B" -> <<"B">>
      [] str = "Unnamed Cave" -> <<"U", "n", "n", "a", "m", "e", "d", " ", "C", "a", "v",
             "e">>
      [] str = "x" -> <<"x">>
      [] str = "y" -> <<"y">>
      [] str = "Poison" -> <<"P", "o", "i", "s", "o", "n">>
      [] str = "Nothing" -> <<"N", "o", "t", "h", "i", "n", "g">>
      [] str = "text" -> <<"t", "e", "x", "t">>
      [] str = "2 turrets - *hard*" -> <<"2", " ", "t", "u", "r", "r", "e", "t", "s", " ",
             "-", " ", "*", "h", "a", "r", "d", "*">>
      [] str = "__***# Mesa - Ragnarok***__" -> <<"_", "_", "*", "*", "*", "#", " ", "M",
             "e", "s", "a", " ", "-", " ", "R", "a", "g", "n", "a", "r", "o", "k", "*",
             "*", "*", "_", "_">>
      [] str = "https://youtu.be/v" -> <<"h", "t", "t", "p", "s", ":", "/", "/", "y", "o",
             "u", "t", "u", ".", "b", "e", "/", "v">>
      [] str = "https://p.supabase.co/storage/v1/object/public/v" -> <<"h", "t", "t", "p",
             "s", ":", "/", "/", "p", ".", "s", "u", "p", "a", "b", "a", "s", "e", ".",
             "c", "o", "/", "s", "t", "o", "r", "a", "g", "e", "/", "v", "1", "/", "o",
             "b", "j", "e", "c", "t", "/", "p", "u", "b", "l", "i", "c", "/", "v">>
      [] str = "clip.mp4" -> <<"c", "l", "i", "p", ".", "m", "p", "4">>

Digit == <<"0", "1", "2", "3", "4", "5", "6", "7", "8", "9">>

\* The decimal digits of an integer.
RECURSIVE digits(_)
digits(n) ==
    IF n < 0 THEN <<"-">> \o digits(0 - n)
    ELSE IF n < 10 THEN <<Digit[n + 1]>>
    ELSE digits(n \div 10) \o <<Digit[(n % 10) + 1]>>

RECURSIVE flat(_)
flat(parts) == IF parts = <<>> THEN <<>> ELSE chars(Head(parts)) \o flat(Tail(parts))

\* The characters of one line of a message.
lineChars(l) ==
    CASE l.line = "title" ->
           chars(l.parts[1]) \o digits(l.parts[2]) \o flat(SubSeq(l.parts, 3, 5))
      [] l.line = "footer" -> chars(l.parts[1]) \o digits(l.parts[2]) \o chars(l.parts[3])
      [] l.line = "description" -> flat(l.parts) \o <<"\n", "backquote", "backquote", "backquote", "\n">>
      [] l.line = "video" -> flat(l.parts) \o <<"\n">>
      [] OTHER -> flat(l.parts)

\* message.content: the lines joined by line feeds.
RECURSIVE joined(_)
joined(content) ==
    IF content = <<>> THEN <<>>
    ELSE IF Len(content) = 1 THEN lineChars(content[1])
    ELSE lineChars(Head(content)) \o <<"\n">> \o joined(Tail(content))

textOf(message) == joined(message.content)

\* \s of the regular expression and the white space of String.prototype.trim.
Whitespace == {" ", "\n", "\t"}

RECURSIVE trimChars(_)
trimChars(t) ==
    IF t = <<>> THEN t
    ELSE IF Head(t) \in Whitespace THEN trimChars(Tail(t))
    ELSE IF t[Len(t)] \in Whitespace THEN trimChars(SubSeq(t, 1, Len(t) - 1))
    ELSE t

\* The literals of the pattern: __\*\*\*# and \*\*\*__
opening == <<"_", "_", "*", "*", "*", "#">>

closing == <<"*", "*", "*", "_", "_">>

literalAt(t, p, literal) ==
    /\ p + Len(literal) - 1 <= Len(t)
    /\ SubSeq(t, p, p + Len(literal) - 1) = literal

\* The first place from p on where t holds the character c, 0 when there is none.
firstAt(t, p, c) ==
    IF \E k \in p..Len(t) : t[k] = c
    THEN CHOOSE k \in p..Len(t) : t[k] = c /\ \A j \in p..(k - 1) : t[j] # c
    ELSE 0

NoMatch == [found |-> FALSE, groups |-> <<>>]

\* The match of /__\*\*\*#\s*([^-]+)\s*-\s*([^*]+)\*\*\*__/ that starts at p.  A group
\* of [^-]+ ends before the first hyphen and one of [^*]+ before the first asterisk;
\* \s* and the group share the characters between, at least one of them in the
\* group, so that the groups differ from the characters between by white space at
\* their ends only.
matchAt(t, p) ==
    LET q == p + Len(opening)
        d == firstAt(t, q, "-")
        e == IF d = 0 THEN 0 ELSE firstAt(t, d + 1, "*")
    IN IF literalAt(t, p, opening) /\ d > q /\ e > d + 1 /\ literalAt(t, e, closing)
       THEN [found |-> TRUE, groups |-> <<SubSeq(t, q, d - 1), SubSeq(t, d + 1, e - 1)>>]
       ELSE NoMatch

\* headerText.match(...): the leftmost match.
headerMatch(t) ==
    IF \E p \in 1..Len(t) : matchAt(t, p).found
    THEN matchAt(t, CHOOSE p \in 1..Len(t) :
                        matchAt(t, p).found /\ \A j \in 1..(p - 1) : ~matchAt(t, j).found)
    ELSE NoMatch

\* validServers.includes(server), validMaps.includes(map)
includes(array, t) == \E name \in elementsOf(array) : chars(name) = t

nameOf(array, t) == CHOOSE name \in elementsOf(array) : chars(name) = t

parseServerAndMapFromHeader(t) ==
    LET m == headerMatch(t)
    IN IF m.found
       THEN LET server == trimChars(m.groups[1])
                map == trimChars(m.groups[2])
            IN IF includes(validServers, server) /\ includes(validMaps, map)
               THEN [server |-> nameOf(validServers, server), map |-> nameOf(validMaps, map)]
               ELSE NullConfig
       ELSE NullConfig

\* The texts the parser is tried on: the dataset headers of updateChannel and of
\* executeCavesCommand for valid and other servers and maps, and the category
\* headers, bodies and footers the three flows emit for some records.
ServersTried == elementsOf(validServers) \cup {"Atlas", "inx"}

MapsTried == elementsOf(validMaps) \cup {"Atlantis"}

ParseRecords ==
    { Spot("cave", "A"),
      Spot(NULL, NULL),
      Spot("semi-open", "B"),
      Spot("Mesa - Ragnarok", "A"),
      [Spot("farm", "B") EXCEPT !.description = "2 turrets - *hard*", !.caveDamage = "Poison",
                                !.videoUrl = "https://youtu.be/v"],
      [Spot("cave", "B") EXCEPT !.description = "__***# Mesa - Ragnarok***__"] }

HeaderTexts ==
    { textOf(datasetHeader(command, server, map)) :
        command \in {"update", "caves"}, server \in ServersTried, map \in MapsTried }

CategoryTexts == { textOf(categoryHeader(command, r)) : command \in Flows, r \in ParseRecords }

BodyTexts ==
    UNION { { textOf(plainBody(command, r, k)), textOf(fallbackBody(command, r, k)),
              textOf(attachmentBody(command, r, k)) } :
            command \in Flows, r \in ParseRecords, k \in {0, 11} }

OtherTexts == { textOf(separatorMessage), textOf(truncationFooter(2)),
                textOf(truncationFooter(0 - 24)) }

ParseTexts == HeaderTexts \cup CategoryTexts \cup BodyTexts \cup OtherTexts

ParseHeader ==
    /\ parsed = <<>>
    /\ parsed' = <<parseServerAndMapFromHeader(headerText)>>
    /\ UNCHANGED <<storeVars, flowVars, channelVars, apiVars, interactionVars, allVars>>
    /\ UNCHANGED <<resolveVars, headerText, startVars, populateVars, concurrentVars>>

InitParse ==
    /\ IdleStore
    /\ IdleFlow
    /\ IdleChannel
    /\ IdleApi
    /\ IdleInteraction
    /\ IdleAll
    /\ IdleResolve
    /\ IdleStart
    /\ IdlePopulate
    /\ IdleConcurrent
    /\ headerText \in ParseTexts
    /\ parsed = <<>>

NextParse == ParseHeader

SpecParse == InitParse /\ [][NextParse]_vars

(***************************************************************************)
(* index.ts and deploy-commands.ts: the start of the bot.                  *)
(***************************************************************************)
\* The bound of the model on the interactions handled after the login.
MaxHandled == 2

\* process.env and process.argv: whether DISCORD_TOKEN, DISCORD_CLIENT_ID and
\* DISCORD_GUILD_ID are set, and the scope asked by --global / --guild or
\* DEPLOY_SCOPE ("" when neither is given).
Environments ==
    [token : BOOLEAN, clientId : BOOLEAN, guildId : BOOLEAN, scope : {"", "global", "guild"}]

\* The process: where it stands, its exit code (NULL while it runs), whether the
\* client is logged in, what deployCommands did, the interactions handled.
Process(at, exitCode, loggedIn, deployed, handled) ==
    [at |-> at, exitCode |-> exitCode, loggedIn |-> loggedIn, deployed |-> deployed,
     handled |-> handled]

\* What the start of the bot leaves alone.
startRest == <<storeVars, flowVars, channelVars, apiVars, interactionVars, allVars,
               resolveVars, parseVars, env, populateVars, concurrentVars>>

\* if (!token) of index.ts
missingCredential(e) == ~e.token

\* index.ts, top level: the client is created, the handlers are registered, and the
\* token is checked: process.exit(1) without it, client.login(token) with it.
Start ==
    /\ proc.at = "start"
    /\ proc' = IF missingCredential(env)
               THEN [proc EXCEPT !.at = "exited", !.exitCode = 1]
               ELSE [proc EXCEPT !.at = "login"]
    /\ UNCHANGED startRest

\* client.login(token) settles: the client is ready, or the rejection is logged by
\* the unhandledRejection handler.
Login ==
    /\ proc.at = "login"
    /\ \E ok \in BOOLEAN :
          proc' = IF ok THEN [proc EXCEPT !.at = "ready", !.loggedIn = TRUE]
                  ELSE [proc EXCEPT !.at = "loginFailed"]
    /\ UNCHANGED startRest

\* const shouldDeployToGuild = forceGuild || (!forceGlobal && !!guildId)
shouldDeployToGuild(e) == e.scope = "guild" \/ (e.scope # "global" /\ e.guildId)

\* deployCommands: what it has done when it returns; every throw is caught and
\* logged inside.
deployCommands(e, putOk) ==
    IF ~e.clientId THEN "failed"
    ELSE IF shouldDeployToGuild(e)
    THEN (IF ~e.guildId THEN "failed" ELSE IF putOk THEN "guild" ELSE "failed")
    ELSE (IF putOk THEN "global" ELSE "failed")

\* The ClientReady handler: deployCommands().catch(console.error).
Ready ==
    /\ proc.at = "ready"
    /\ \E putOk \in BOOLEAN :
          proc' = [proc EXCEPT !.at = "running", !.deployed = deployCommands(env, putOk)]
    /\ UNCHANGED startRest

\* An InteractionCreate event reaches handleInteraction.
Handle ==
    /\ proc.loggedIn
    /\ proc.handled < MaxHandled
    /\ proc' = [proc EXCEPT !.handled = @ + 1]
    /\ UNCHANGED startRest

InitStartup ==
    /\ IdleStore
    /\ IdleFlow
    /\ IdleChannel
    /\ IdleApi
    /\ IdleInteraction
    /\ IdleAll
    /\ IdleResolve
    /\ IdleParse
    /\ IdlePopulate
    /\ IdleConcurrent
    /\ env \in Environments
    /\ proc = Process("start", NULL, FALSE, "none", 0)

NextStartup == Start \/ Login \/ Ready \/ Handle

SpecStartup == InitStartup /\ [][NextStartup]_vars

(***************************************************************************)
(* commands/populateThread.ts: the loop of executePopulateThreadCommand    *)
(* over the maps of the server.  The forum post of a map is created with   *)
(* its starter message, the dataset header of the flow.                    *)
(***************************************************************************)
\* const mapsToProcess = await fetchMapsForServer(server).catch(() => validMaps)
PopulateMaps == { fetchMapsForServer(answer) : answer \in Responses }

\* What the catalog answers for a map.
PopulateInputs == { <<>>, numbered(<<Spot("cave", "A")>>) }

\* What the populate loop leaves alone.
populateRest == <<storeVars, channelVars, apiVars, interactionVars, allVars, resolveVars,
                  parseVars, startVars, concurrentVars>>

\* The forum posts created in the flow of the current map.
RECURSIVE postsIn(_)
postsIn(sends) ==
    IF sends = <<>> THEN <<>>
    ELSE IF Head(sends).kind = "dataset"
         THEN <<Head(sends).content[1].parts[3]>> \o postsIn(Tail(sends))
         ELSE postsIn(Tail(sends))

\* for (const map of mapsToProcess) { try { const spots = await fetchSpots(...) :
\* the pass of the next map begins.
PopulateNext ==
    /\ pc = "nextMap"
    /\ mapIndex < Len(maps)
    /\ cmd' = "populate"
    /\ input' \in PopulateInputs
    /\ spots' = <<>>
    /\ len' = 0
    /\ i' = 0
    /\ lastType' = NULL
    /\ idx' = 0
    /\ messageCount' = 0
    /\ out' = <<>>
    /\ sent' = 0
    /\ footers' = <<>>
    /\ throws' = 0
    /\ pc' = "fetch"
    /\ UNCHANGED <<populateRest, populateVars>>

\* A loop that a throw in the pass of a map leaves.
afterMapAborts(end) == IF end = "threw" THEN "report" ELSE "nextMap"

\* The end of the pass of a map: continue after no spots, the end of the body after
\* the sends, the catch after a throw; the loop goes on in each case.
afterMap(end) == "nextMap"

PopulateTally ==
    /\ cmd = "populate"
    /\ pc \in {"sent", "noSpots", "threw"}
    /\ threads' = threads \o postsIn(out)
    /\ mapIndex' = mapIndex + 1
    /\ pc' = afterMap(pc)
    /\ UNCHANGED <<populateRest, flowRest>>

\* The end of the loop: the report of the command.
PopulateReport ==
    /\ \/ pc = "nextMap" /\ mapIndex = Len(maps)
       \/ pc = "report"
    /\ pc' = "populated"
    /\ UNCHANGED <<populateRest, flowRest, populateVars>>

InitPopulate ==
    /\ IdleStore
    /\ IdleChannel
    /\ IdleInteraction
    /\ IdleAll
    /\ IdleResolve
    /\ IdleParse
    /\ IdleStart
    /\ IdlePopulate
    /\ IdleConcurrent
    /\ response = NULL
    /\ maps \in PopulateMaps
    /\ cmd = "populate"
    /\ input = <<>>
    /\ spots = <<>>
    /\ len = 0
    /\ i = 0
    /\ lastType = NULL
    /\ idx = 0
    /\ messageCount = 0
    /\ out = <<>>
    /\ sent = 0
    /\ footers = <<>>
    /\ throws = 0
    /\ pc = "nextMap"

NextPopulate ==
    \/ PopulateNext
    \/ FetchSpots
    \/ SortSpots
    \/ SendHeader
    \/ EmitNext
    \/ PopulateTally
    \/ PopulateReport

SpecPopulate == InitPopulate /\ [][NextPopulate]_vars

(***************************************************************************)
(* handlers/interactionHandler.ts (handleInteraction) with                 *)
(* executeCavesCommand (commands/caves.ts) and executeUpdateCommand        *)
(* (commands/update.ts): one inbound interaction.                          *)
(***************************************************************************)
\* interaction.guildId and interaction.channelId of the request.
guild == "g1"

channel == "c1"

\* The interactions handleInteraction tells apart: the two commands, a command it
\* does not know, a button, an autocomplete of a command other than caves.
Kinds == {"caves", "update", "unknown", "button", "autocomplete"}

\* The commands deploy-commands.ts registers.
deployedCommands == {"caves", "update", "populatethread", "webhook", "send"}

\* The checks that end a command before its flow: the kind of the channel, the
\* permissions of the bot, the state of the thread, and in caves the options.
Refusals == {"channelKind", "permission", "archived", "locked", "invalidServer", "invalidMap"}

\* precheck: the checks all pass ("ok") or the first that refuses the command.
Requests ==
    { r \in [kind : Kinds, commandName : deployedCommands \cup {"ping", NULL}, admin : BOOLEAN,
             mode : {"here", "all"}, precheck : {"ok"} \cup Refusals] :
        /\ r.kind \in {"caves", "update"} => r.commandName = r.kind
        /\ r.kind = "unknown" => r.commandName \notin {"caves", "update", NULL}
        /\ r.kind = "button" => r.commandName = NULL
        /\ r.kind = "autocomplete" => r.commandName = "update"
        /\ r.kind \notin {"caves", "update"} => (r.admin /\ r.precheck = "ok")
        /\ r.kind # "update" => r.mode = "here"
        /\ r.kind # "caves" => r.precheck \notin {"invalidServer", "invalidMap"} }

\* interaction.isChatInputCommand()
isChatInputCommand(req) == req.kind \in {"caves", "update", "unknown"}

\* switch (commandName): the case that runs.
executorOf(commandName) ==
    CASE commandName = "caves" -> "caves"
      [] commandName = "update" -> "update"
      [] OTHER -> "default"

\* interaction.isRepliable()
isRepliable(req) == req.kind # "autocomplete"

\* A request whose caller is taken for an administrator whoever they are.
isAdministratorAnyone(req) == TRUE

\* interaction.memberPermissions?.has(PermissionsBitField.Flags.Administrator)
isAdministrator(req) == req.admin

NewInteraction == [deferred |-> FALSE, replied |-> FALSE, responded |-> FALSE]

\* A message issued to the user: the call, what it says, whether it was delivered,
\* and the counts of the all-mode report.
Reply(via, text, ok, counts) == [via |-> via, text |-> text, ok |-> ok, counts |-> counts]

\* The store after /caves has bound the target to the channel of the request and a
\* later /caves has bound the same target to c2.
rebound == upsertStore(upsertStore(EmptyStore, guild, channel, target), guild, "c2", target)

\* The channel store when the request arrives.
RequestStores ==
    { EmptyStore,
      rebound,
      [EmptyStore EXCEPT ![guild] = [c \in {"c1"} |-> target]],
      [EmptyStore EXCEPT ![guild] = [c \in {"c2"} |-> [server |-> "INX", map |-> "Ragnarok"]]],
      [EmptyStore EXCEPT ![guild] =
          [c \in {"c1", "c2"} |->
              IF c = "c1" THEN target ELSE [server |-> "INX", map |-> "Ragnarok"]]] }

\* What the catalog answers and what the channel holds in the flows of a request.
RequestInputs == { <<>>, numbered(<<Spot("cave", "A")>>) }

RequestYoung == {0, 1}

\* await interaction.reply(...): one more acknowledgement call; replied is set when
\* the call succeeds, which it cannot once the deferral has been acknowledged.
reply(text, ok) ==
    /\ ok => ~interaction.deferred
    /\ acks' = acks + 1
    /\ replies' = Append(replies, Reply("reply", text, ok, <<>>))
    /\ interaction' = [interaction EXCEPT !.replied = @ \/ ok]

\* await interaction.editReply(...) on an interaction that is deferred or replied;
\* on any other interaction editReply throws before any call.
editReply(text, ok, counts) ==
    /\ interaction.deferred \/ interaction.replied
    /\ replies' = Append(replies, Reply("editReply", text, ok, counts))
    /\ UNCHANGED <<acks, interaction>>

\* try { await interaction.editReply(...) } catch { }: the failure is swallowed.
tryEditReply(text) ==
    IF interaction.deferred \/ interaction.replied
    THEN \E ok \in BOOLEAN : editReply(text, ok, <<>>)
    ELSE UNCHANGED <<acks, interaction, replies>>

\* await interaction.editReply(...) outside any try: next when it returns, the catch
\* of the command when it throws.
awaitEditReply(text, counts, next) ==
    IF interaction.deferred \/ interaction.replied
    THEN \E ok \in BOOLEAN :
            /\ editReply(text, ok, counts)
            /\ pc' = IF ok THEN next ELSE "cmdCatch"
    ELSE /\ pc' = "cmdCatch"
         /\ UNCHANGED <<acks, interaction, replies>>

\* updateChannel (or the fetch of executeCavesCommand) is entered.
BeginFlow(command) ==
    /\ cmd' = command
    /\ input' \in RequestInputs
    /\ spots' = <<>>
    /\ len' = 0
    /\ i' = 0
    /\ lastType' = NULL
    /\ idx' = 0
    /\ messageCount' = 0
    /\ out' = <<>>
    /\ sent' = 0
    /\ footers' = <<>>
    /\ throws' = 0
    /\ pc' = "fetch"
    /\ young' \in RequestYoung
    /\ old' = 0
    /\ young0' = young'
    /\ old0' = 0
    /\ fetches' = 0
    /\ batches' = <<>>

\* handleInteraction down to the command: the dispatch on the kind of interaction.
Dispatch ==
    /\ pc = "start"
    /\ CASE isChatInputCommand(request) /\ executorOf(request.commandName) # "default" ->
              /\ pc' = IF isRepliable(request) THEN "admin" ELSE "done"
              /\ UNCHANGED <<acks, interaction, replies>>
         [] isChatInputCommand(request) /\ executorOf(request.commandName) = "default" ->
              /\ \E ok \in BOOLEAN : reply("unknown", ok)
              /\ pc' = "done"
         [] request.kind = "button" ->
              \E ok \in BOOLEAN :
                  /\ reply("notice", ok)
                  /\ pc' = IF ok THEN "done" ELSE "caught"
         [] request.kind = "autocomplete" ->
              \E ok \in BOOLEAN :
                  /\ replies' = Append(replies, Reply("respond", "choices", ok, <<>>))
                  /\ interaction' = [interaction EXCEPT !.responded = ok]
                  /\ pc' = IF ok THEN "done" ELSE "caught"
                  /\ acks' = acks
    /\ UNCHANGED <<storeVars, flowRest, channelVars, apiVars, sideVars, allVars>>
    /\ UNCHANGED <<request, deferral, file0, handlers>>

\* A catch that always sends a fresh reply.
catchViaReply(req, flags) == "reply"

\* The catch of handleInteraction: editReply on an interaction replied or deferred,
\* reply on any other repliable interaction.
outerCatchVia(req, flags) ==
    IF ~isRepliable(req) THEN "none"
    ELSE IF flags.replied \/ flags.deferred THEN "editReply"
    ELSE "reply"

\* The catch of the commands: reply on an interaction neither replied nor deferred,
\* editReply on a deferred one.
commandCatchVia(req, flags) ==
    IF ~flags.replied /\ ~flags.deferred THEN "reply"
    ELSE IF flags.deferred THEN "editReply"
    ELSE "none"

\* try { the generic message } catch { }: a failure to send it is swallowed.
sendGeneric(via) ==
    CASE via = "reply" -> \E ok \in BOOLEAN : reply("generic", ok)
      [] via = "editReply" -> \E ok \in BOOLEAN : editReply("generic", ok, <<>>)
      [] OTHER -> UNCHANGED <<acks, interaction, replies>>

\* The catch of handleInteraction.
OuterCatch ==
    /\ pc = "caught"
    /\ sendGeneric(outerCatchVia(request, interaction))
    /\ pc' = "done"
    /\ UNCHANGED <<storeVars, flowRest, channelVars, apiVars, sideVars, allVars>>
    /\ UNCHANGED <<request, deferral, file0, handlers>>

\* The head of both commands: the administrator check, the guards, and the call of
\* deferReply.
AdminCheck ==
    /\ pc = "admin"
    /\ IF ~isAdministrator(request)
       THEN /\ IF ~interaction.replied /\ ~interaction.deferred
               THEN \E ok \in BOOLEAN : reply("denial", ok)
               ELSE UNCHANGED <<acks, interaction, replies>>
            /\ pc' = "done"
            /\ UNCHANGED deferral
       ELSE IF interaction.replied \/ interaction.deferred \/ ~isRepliable(request)
       THEN /\ pc' = "done"
            /\ UNCHANGED <<acks, interaction, replies, deferral>>
       ELSE /\ acks' = acks + 1
            /\ deferral' = "inflight"
            /\ pc' = "defer"
            /\ UNCHANGED <<interaction, replies>>
    /\ UNCHANGED <<storeVars, flowRest, channelVars, apiVars, sideVars, allVars>>
    /\ UNCHANGED <<request, file0, handlers>>

\* A command that returns when its deferral was not acknowledged.
afterDeferStops(outcome) == IF outcome = "resolved" THEN "checks" ELSE "done"

\* The catch around the deferral logs and does not return.
afterDefer(outcome) == "checks"

\* await withTimeout(interaction.deferReply(...), 2000): the call resolves, rejects,
\* or is still in flight when the timer rejects; the command goes on in each case.
Deferred ==
    /\ pc = "defer"
    /\ \E outcome \in {"resolved", "rejected", "inflight"} :
          /\ deferral' = outcome
          /\ interaction' = [interaction EXCEPT !.deferred = (outcome = "resolved")]
          /\ pc' = afterDefer(outcome)
    /\ UNCHANGED <<storeVars, flowRest, channelVars, apiVars, sideVars, allVars>>
    /\ UNCHANGED <<request, acks, replies, file0, handlers>>

\* The deferReply call left in flight settles: deferred is set when it succeeds,
\* which it cannot once a reply has been acknowledged.
DeferSettles ==
    /\ deferral = "inflight"
    /\ pc # "defer"
    /\ \E ok \in BOOLEAN :
          /\ ok => ~interaction.replied
          /\ deferral' = IF ok THEN "resolved" ELSE "rejected"
          /\ interaction' = [interaction EXCEPT !.deferred = ok]
    /\ UNCHANGED <<storeVars, flowVars, channelVars, apiVars, sideVars, allVars>>
    /\ UNCHANGED <<request, acks, replies, file0, handlers>>

\* A command that no check refuses.
refusesNever(req) == FALSE

\* One of the checks refuses the command.
refuses(req) == req.precheck # "ok"

\* The checks of the channel, of the bot's permissions, of the thread and (caves) of
\* the options: a refusal is told by editReply and ends the command.
Checks ==
    /\ pc = "checks"
    /\ IF refuses(request)
       THEN /\ tryEditReply("notice")
            /\ pc' = "done"
       ELSE /\ pc' = CASE request.kind = "caves" -> "save"
                       [] request.mode = "all" -> "all"
                       [] OTHER -> "resolve"
            /\ UNCHANGED <<acks, interaction, replies>>
    /\ UNCHANGED <<storeVars, flowRest, channelVars, apiVars, sideVars, allVars>>
    /\ UNCHANGED <<request, deferral, file0, handlers>>

\* executeCavesCommand: the mapping is saved for the channel, then the flow starts
\* with the fetch of the spots.
Save ==
    /\ pc = "save"
    /\ \E readOk \in BOOLEAN, writeOk \in BOOLEAN :
          file' = writeStore(file,
                             upsertStore(readStore(file, readOk), guild, channel, target),
                             writeOk)
    /\ BeginFlow("caves")
    /\ UNCHANGED <<last, prevChannel, apiVars, sideVars, interactionVars, allVars>>

\* The messages of the channel before the request, newest first: padding messages
\* that hold no header (separator lines), then texts.
History(padding, texts) == [padding |-> padding, texts |-> texts]

\* targetChannel.messages.fetch({ limit: 100 }): the 100 newest messages.
scanWindow(h) ==
    [k \in 1..(IF h.padding < fetchLimit THEN h.padding ELSE fetchLimit) |->
        textOf(separatorMessage)]
    \o SubSeq(h.texts, 1,
              IF h.padding >= fetchLimit THEN 0
              ELSE IF Len(h.texts) < fetchLimit - h.padding THEN Len(h.texts)
              ELSE fetchLimit - h.padding)

\* A scan in which the last message that parses wins.
scanHeadersLastWins(messages) ==
    LET hits == { k \in 1..Len(messages) :
                    parseServerAndMapFromHeader(messages[k]) # NullConfig }
    IN IF hits = {} THEN NullConfig
       ELSE parseServerAndMapFromHeader(messages[CHOOSE k \in hits : \A j \in hits : j <= k])

\* for (const [_, message] of messages): the first message that parses to a server
\* and a map wins.
scanHeaders(messages) ==
    LET hits == { k \in 1..Len(messages) :
                    parseServerAndMapFromHeader(messages[k]) # NullConfig }
    IN IF hits = {} THEN NullConfig
       ELSE parseServerAndMapFromHeader(messages[CHOOSE k \in hits : \A j \in hits : k <= j])

\* executeUpdateCommand, mode here: the saved config of the channel, else a header
\* found among the last messages (a failed fetch of the messages finds none); with
\* neither the command tells so and ends.
Resolve ==
    /\ pc = "resolve"
    /\ \E readOk \in BOOLEAN, fetchOk \in BOOLEAN :
          \E cfg \in {getChannelConfig(readStore(file, readOk), guild, channel)} :
              /\ cfg # NullConfig => fetchOk
              /\ savedCfg' = <<cfg>>
              /\ scans' = IF cfg # NullConfig THEN scans ELSE scans + 1
              /\ resolved' = IF cfg # NullConfig THEN cfg
                             ELSE IF fetchOk THEN scanHeaders(scanWindow(history))
                             ELSE NullConfig
    /\ IF resolved' # NullConfig
       THEN /\ BeginFlow("update")
            /\ UNCHANGED <<acks, interaction, replies>>
       ELSE /\ awaitEditReply("notice", <<>>, "done")
            /\ UNCHANGED <<flowRest, channelVars>>
    /\ UNCHANGED <<storeVars, apiVars, allVars>>
    /\ UNCHANGED <<request, deferral, file0, handlers>>
    /\ UNCHANGED <<history, parseVars, startVars, populateVars, concurrentVars>>

\* How a flow of the request ended, and the tally it got in all-mode.
Outcome(channelId, end, tally) == [channelId |-> channelId, end |-> end, tally |-> tally]

singleFlow == request.kind = "caves" \/ request.mode = "here"

\* The flow of a caves or update-here request returned: caves tells the end.
FlowReturns ==
    /\ pc \in {"sent", "noSpots", "clearFailed"}
    /\ singleFlow
    /\ outcomes' = Append(outcomes, Outcome(channel, pc, NULL))
    /\ IF request.kind = "caves"
       THEN tryEditReply(IF pc = "sent" THEN "final" ELSE "notice")
       ELSE UNCHANGED <<acks, interaction, replies>>
    /\ pc' = "done"
    /\ UNCHANGED <<storeVars, flowRest, channelVars, apiVars, sideVars>>
    /\ UNCHANGED <<request, deferral, file0, handlers, entries, cursor, success, failed>>

\* The flow of a caves or update-here request threw: the catch of the command.
FlowThrows ==
    /\ pc = "threw"
    /\ singleFlow
    /\ outcomes' = Append(outcomes, Outcome(channel, pc, NULL))
    /\ pc' = "cmdCatch"
    /\ UNCHANGED <<storeVars, flowRest, channelVars, apiVars, sideVars, interactionVars>>
    /\ UNCHANGED <<entries, cursor, success, failed>>

\* The catch of executeCavesCommand and of executeUpdateCommand.
CommandCatch ==
    /\ pc = "cmdCatch"
    /\ sendGeneric(commandCatchVia(request, interaction))
    /\ pc' = "done"
    /\ UNCHANGED <<storeVars, flowRest, channelVars, apiVars, sideVars, allVars>>
    /\ UNCHANGED <<request, deferral, file0, handlers>>

(***************************************************************************)
(* executeUpdateCommand, mode all.                                         *)
(***************************************************************************)
\* Object.entries(saved): the saved channel ids.
entriesOf(guildStore) ==
    LET isSaved(c) == c \in DOMAIN guildStore
    IN SelectSeq(<<"c1", "c2", "c3">>, isSaved)

\* A loop whose catch does not count.
tallyOfReturns(end) == IF end = "threw" THEN "none" ELSE "success"

\* success++ after updateChannel returned, failed++ in the catch.
tallyOf(end) == IF end = "threw" THEN "failed" ELSE "success"

\* The saved channels of the guild are read; with none the command tells so.
AllStart ==
    /\ pc = "all"
    /\ \E readOk \in BOOLEAN :
          LET saved == getAllGuildChannels(readStore(file, readOk), guild)
          IN IF Len(entriesOf(saved)) = 0
             THEN /\ awaitEditReply("notice", <<>>, "done")
                  /\ UNCHANGED <<entries, cursor, success, failed>>
             ELSE /\ entries' = entriesOf(saved)
                  /\ cursor' = 0
                  /\ success' = 0
                  /\ failed' = 0
                  /\ pc' = "allNext"
                  /\ UNCHANGED <<acks, interaction, replies>>
    /\ UNCHANGED <<storeVars, flowRest, channelVars, apiVars, sideVars, outcomes>>
    /\ UNCHANGED <<request, deferral, file0, handlers>>

\* One entry of the loop: the channel is fetched; a channel that is gone or of
\* another type, or a fetch that throws, counts as failed; else updateChannel runs.
AllNext ==
    /\ pc = "allNext"
    /\ cursor < Len(entries)
    /\ \E found \in {"text", "thread", "missing", "voice", "rejected"} :
          IF found \in {"text", "thread"}
          THEN /\ BeginFlow("update")
               /\ UNCHANGED <<cursor, failed, outcomes>>
          ELSE /\ failed' = failed + 1
               /\ cursor' = cursor + 1
               /\ outcomes' = Append(outcomes, Outcome(entries[cursor + 1], found, "failed"))
               /\ UNCHANGED <<flowVars, channelVars>>
    /\ UNCHANGED <<storeVars, apiVars, sideVars, interactionVars, entries, success>>

\* updateChannel returned or threw: the entry is tallied and the loop goes on.
AllTally ==
    /\ pc \in {"sent", "noSpots", "clearFailed", "threw"}
    /\ ~singleFlow
    /\ \E tally \in {tallyOf(pc)} :
          /\ success' = IF tally = "success" THEN success + 1 ELSE success
          /\ failed' = IF tally = "failed" THEN failed + 1 ELSE failed
          /\ outcomes' = Append(outcomes, Outcome(entries[cursor + 1], pc, tally))
    /\ cursor' = cursor + 1
    /\ pc' = "allNext"
    /\ UNCHANGED <<storeVars, flowRest, channelVars, apiVars, sideVars, interactionVars,
                   entries>>

\* After the loop: the report of the two counts.
AllReport ==
    /\ pc = "allNext"
    /\ cursor = Len(entries)
    /\ awaitEditReply("report", <<success, failed>>, "done")
    /\ UNCHANGED <<storeVars, flowRest, channelVars, apiVars, sideVars, allVars>>
    /\ UNCHANGED <<request, deferral, file0, handlers>>

\* The bound of the model on the messages of the channel told apart in the scan.
MaxHistory == 2

\* The texts of those messages: the headers of two maps and a body.
HistoryTexts ==
    { textOf(datasetHeader("caves", "INX", "The Island")),
      textOf(datasetHeader("update", "Mesa", "Ragnarok")),
      textOf(plainBody("update", Spot("cave", "A"), 0)) }

\* What executeCavesCommand has left in the channel for the target and one record,
\* newest first: the body, the category header, the dataset header.
leftByCaves ==
    History(0, << textOf(plainBody("caves", [Spot("cave", "A") EXCEPT !.id = 1], 0)),
                  textOf(categoryHeader("caves", Spot("cave", "A"))),
                  textOf(datasetHeader("caves", target.server, target.map)) >>)

RequestHistories ==
    { History(padding, texts) :
        padding \in {0, fetchLimit - 1, fetchLimit}, texts \in SeqsUpTo(HistoryTexts, MaxHistory) }
    \cup {leftByCaves}

\* The requests that may come to the header scan.
scansHistory(req) ==
    req.kind = "update" /\ req.mode = "here" /\ req.admin /\ req.precheck = "ok"

InitRequest ==
    /\ file \in RequestStores
    /\ last = NoCall
    /\ prevChannel = NULL
    /\ IdleChannel
    /\ IdleApi
    /\ IdleAll
    /\ IdleParse
    /\ IdleStart
    /\ IdlePopulate
    /\ IdleConcurrent
    /\ savedCfg = <<>>
    /\ scans = 0
    /\ resolved = NullConfig
    /\ cmd = "update"
    /\ input = <<>>
    /\ spots = <<>>
    /\ len = 0
    /\ i = 0
    /\ lastType = NULL
    /\ idx = 0
    /\ messageCount = 0
    /\ out = <<>>
    /\ sent = 0
    /\ footers = <<>>
    /\ throws = 0
    /\ pc = "start"
    /\ request \in Requests
    /\ history \in IF scansHistory(request) THEN RequestHistories ELSE {History(0, <<>>)}
    /\ interaction = NewInteraction
    /\ deferral = "none"
    /\ acks = 0
    /\ replies = <<>>
    /\ file0 = file
    /\ handlers = <<>>

NextRequest ==
    \/ Dispatch
    \/ OuterCatch
    \/ AdminCheck
    \/ Deferred
    \/ DeferSettles
    \/ Checks
    \/ Save
    \/ Resolve
    \/ FlowReturns
    \/ FlowThrows
    \/ CommandCatch
    \/ AllStart
    \/ AllNext
    \/ AllTally
    \/ AllReport
    \/ FetchSpots
    \/ SortSpots
    \/ ClearBatch
    \/ SendHeader
    \/ EmitNext

SpecRequest == InitRequest /\ [][NextRequest]_vars

\* Every await of the handling settles: the handling goes on as long as it can.
SpecRequestLive == SpecRequest /\ WF_vars(NextRequest)

(***************************************************************************)
(* handleInteraction and handleCavesAutocomplete on one autocomplete       *)
(* interaction that is handled twice.                                      *)
(***************************************************************************)
\* What the user has typed in the focused option.
Typed == {"", "the", "RAG", "zzz"}

\* m.toLowerCase().includes(value.toLowerCase()), on validMaps and Typed.
includesLower(m, value) ==
    CASE value = "" -> TRUE
      [] value = "the" -> m \in {"The Island", "The Center"}
      [] value = "RAG" -> m = "Ragnarok"
      [] OTHER -> FALSE

\* The choices of respond: the maps that match for the option map of caves, none for
\* any other option or command.
choicesFor(req) ==
    IF req.commandName = "caves" /\ req.focused = "map"
    THEN LET matches(m) == includesLower(m, req.value)
         IN SelectSeq(validMaps, matches)
    ELSE <<>>

AutocompleteRequests ==
    [kind : {"autocomplete"}, commandName : {"caves", "update"}, focused : {"map", "server"},
     value : Typed]

Handling(at, sentReply) == [at |-> at, reply |-> sentReply]

\* One handling reaches its respond: skipped when interaction.responded is set, else
\* the call is issued and awaited.
AutoRespond(h) ==
    /\ handlers[h].at = "start"
    /\ IF interaction.responded
       THEN /\ handlers' = [handlers EXCEPT ![h] = Handling("done", 0)]
            /\ UNCHANGED replies
       ELSE /\ replies' = Append(replies, Reply("respond", "choices", FALSE, choicesFor(request)))
            /\ handlers' = [handlers EXCEPT ![h] = Handling("responding", Len(replies) + 1)]
    /\ UNCHANGED <<storeVars, flowVars, channelVars, apiVars, sideVars, allVars>>
    /\ UNCHANGED <<request, interaction, deferral, acks, file0>>

\* The respond call of a handling settles: responded is set when it succeeds, which
\* it does for one call at most; a rejection is caught and nothing more is sent.
AutoSettles(h) ==
    /\ handlers[h].at = "responding"
    /\ \E ok \in BOOLEAN :
          /\ ok => ~interaction.responded
          /\ interaction' = [interaction EXCEPT !.responded = @ \/ ok]
          /\ replies' = [replies EXCEPT ![handlers[h].reply].ok = ok]
    /\ handlers' = [handlers EXCEPT ![h] = Handling("done", handlers[h].reply)]
    /\ UNCHANGED <<storeVars, flowVars, channelVars, apiVars, sideVars, allVars>>
    /\ UNCHANGED <<request, deferral, acks, file0>>

AutoHandle == \E h \in 1..2 : AutoRespond(h)

AutoSettle == \E h \in 1..2 : AutoSettles(h)

InitAutocomplete ==
    /\ IdleStore
    /\ IdleFlow
    /\ IdleChannel
    /\ IdleApi
    /\ IdleAll
    /\ IdleSide
    /\ request \in AutocompleteRequests
    /\ interaction = NewInteraction
    /\ deferral = "none"
    /\ acks = 0
    /\ replies = <<>>
    /\ file0 = file
    /\ handlers = <<Handling("start", 0), Handling("start", 0)>>

NextAutocomplete == AutoHandle \/ AutoSettle

SpecAutocomplete == InitAutocomplete /\ [][NextAutocomplete]_vars

(***************************************************************************)
(* Claims on the channel store.                                            *)
(***************************************************************************)

\* C1: after any sequence of sequential upsertChannelConfig / removeChannelConfig
\* calls from the empty store, no guild has two distinct channel ids bound to the
\* same (server, map) pair.
C1_Uniqueness ==
    \A g \in Guilds : \A c1, c2 \in DOMAIN file[g] :
        c1 # c2 => file[g][c1] # file[g][c2]

\* An upsert has just evicted another channel and the guild still holds two bindings.
C1_Witness ==
    /\ prevChannel # NULL
    /\ Cardinality(DOMAIN file[last.guildId]) = 2

\* The latest two calls were put(g, c1, P) then put(g, c2, P), c1 # c2, both reading
\* and writing: get(g, c1) is null and get(g, c2) is P.
C2_GetAfterTwoPuts ==
    prevChannel # NULL =>
        /\ getChannelConfig(file, last.guildId, prevChannel) = NullConfig
        /\ getChannelConfig(file, last.guildId, last.channelId) = last.config

\* A put(g, c, P) that read and wrote leaves alone every binding of g on another
\* channel with a pair other than P, and every binding of every other guild; it
\* adds no binding but that of c.
C2_PutFrame ==
    last' # NoCall =>
        /\ \A g \in Guilds \ {last'.guildId} : file'[g] = file[g]
        /\ \A c \in Channels \ {last'.channelId} :
              LET before == getChannelConfig(file, last'.guildId, c)
                  after == getChannelConfig(file', last'.guildId, c)
              IN IF before # last'.config THEN after = before ELSE after = NullConfig

\* C2: after put(g,c1,{S,M}) followed by put(g,c2,{S,M}) (c1 # c2, reads and writes
\* succeeding) get(g,c1) returns null and get(g,c2) returns {S,M}; each of the two
\* puts leaves unchanged every binding of g with a different pair (on the channels it
\* was not called on) and every binding of any other guild.
C2_RoundTrip == [] C2_GetAfterTwoPuts /\ [][C2_PutFrame]_vars

\* The two puts have happened, a third channel of the guild still holds another pair
\* and the other guild holds the same pair.
C2_Witness ==
    /\ prevChannel # NULL
    /\ \E c \in Channels \ {prevChannel, last.channelId} :
          /\ c \in DOMAIN file[last.guildId]
          /\ file[last.guildId][c] # last.config
    /\ \E g \in Guilds \ {last.guildId} : \E c \in DOMAIN file[g] :
          file[g][c] = last.config

\* C20: on every content of the file, a failed or unparsable read makes
\* getChannelConfig return null and getAllGuildChannels return the empty mapping,
\* and a failed write of upsertChannelConfig or removeChannelConfig, whatever was
\* read, leaves the file as it was.
C20_FailuresSwallowed ==
    \A g \in Guilds :
        /\ getAllGuildChannels(readStore(file, FALSE), g) = EmptyGuildStore
        /\ \A c \in Channels :
              /\ getChannelConfig(readStore(file, FALSE), g, c) = NullConfig
              /\ \A readOk \in BOOLEAN :
                    LET store == readStore(file, readOk)
                    IN /\ writeStore(file, removeStore(store, g, c), FALSE) = file
                       /\ \A cfg \in Configs :
                             writeStore(file, upsertStore(store, g, c, cfg), FALSE) = file

\* The file holds bindings in both guilds, which a failed read does not show and a
\* failed write of another binding must keep.
C20_Witness ==
    /\ \A g \in Guilds : getAllGuildChannels(file, g) # EmptyGuildStore
    /\ \E g \in Guilds, c \in Channels :
          /\ getChannelConfig(file, g, c) # NullConfig
          /\ getChannelConfig(readStore(file, FALSE), g, c) = NullConfig
    /\ last = NoCall

(***************************************************************************)
(* Claims on the cap of the emit loop (SpecCap).                           *)
(***************************************************************************)

\* C3: in one rendering the messages emitted for records (category headers, record
\* bodies and separators; the dataset header and the truncation footer apart) never
\* number more than the cap of 50, also with video files costing two messages and a
\* category header emitted just below the cap.
C3_CapInvariant == throws = 0 => sent - 1 <= maxMessages

\* C4: whenever the truncation footer is emitted, the number it states is the number
\* of input records that were not rendered.
C4_FooterCount ==
    \A k \in 1..Len(footers) : footers[k] = len - i

\* In every state: at most one footer, and once it is sent the rendering is over;
\* in a completed rendering the footer is there iff a record was left unrendered.
C5_FooterState ==
    /\ Len(footers) <= 1
    /\ Len(footers) = 1 => pc = "sent"
    /\ pc = "sent" => (Len(footers) = 1 <=> i < len)

\* Nothing is sent after the footer.
C5_AfterFooter ==
    Len(footers) >= 1 => (sent' = sent /\ footers' = footers /\ out' = out)

\* C5: in every completed rendering the truncation footer is emitted if and only if
\* at least one input record was left unrendered; it is emitted at most once and no
\* category header or record message is emitted after it.
C5_FooterIffTruncated == [] C5_FooterState /\ [][C5_AfterFooter]_vars

\* A rendering truncated at the cap, and its footer sent.
C5_Witness == pc = "sent" /\ Len(footers) = 1 /\ i < len /\ messageCount >= maxMessages

(***************************************************************************)
(* Claims on the sort and on the order of the messages (SpecSort).         *)
(***************************************************************************)
\* a may stand before b in an order ascending by (type, name): types that differ
\* and rank alike (absent and empty) may stand either way.
sortKeyLE(a, b) ==
    LET byType == localeCompare(orEmpty(a.type), orEmpty(b.type))
    IN \/ byType < 0
       \/ byType = 0 /\ a.type # b.type
       \/ a.type = b.type /\ localeCompare(orEmpty(a.name), orEmpty(b.name)) <= 0

\* C6: the sorted array holds the input records, every 'farm' record after every
\* other record; within the farm records and within the others the order is
\* ascending by (type, name), and records of equal (type, name) keep their input
\* order.
C6_SortOrder ==
    len > 0 =>
        /\ Len(spots) = Len(input)
        /\ \A k \in 1..Len(input) : \E p \in 1..Len(spots) : spots[p] = input[k]
        /\ \A p, q \in 1..Len(spots) :
              p < q =>
                  /\ spots[p].type = "farm" => spots[q].type = "farm"
                  /\ (spots[p].type = "farm" <=> spots[q].type = "farm")
                        => sortKeyLE(spots[p], spots[q])
                  /\ (spots[p].type = spots[q].type /\ spots[p].name = spots[q].name)
                        => spots[p].id < spots[q].id

\* C7: in the messages of a completed rendering every record body comes after a
\* category header naming the type of its record, with no other category header in
\* between, and every type present has exactly one category header.
C7_OneHeaderPerType ==
    pc = "sent" =>
        /\ \A k \in 1..Len(out) :
              out[k].kind = "body" =>
                  \E h \in 1..(k - 1) :
                      /\ out[h].kind = "category"
                      /\ out[h].type = out[k].type
                      /\ out[h].content[1].parts[2] = orElse(out[k].type, "Unknown")
                      /\ \A m \in (h + 1)..(k - 1) : out[m].kind # "category"
        /\ \A k \in 1..Len(out) :
              out[k].kind = "body" =>
                  Cardinality({ h \in 1..Len(out) :
                                  out[h].kind = "category" /\ out[h].type = out[k].type }) = 1

(***************************************************************************)
(* Claims on formatCaveText (SpecFormat).                                  *)
(***************************************************************************)
damageLines(message) ==
    { l \in 1..Len(message.content) : message.content[l].line = "damage" }

\* C8: in the caves, update and populate flows a record whose damage descriptor is
\* absent, empty or 'nothing' in any case has no damage line in its body; any other
\* descriptor has exactly one damage line, containing that text.
C8_DamageLine ==
    \A k \in 1..Len(out) :
        out[k].kind = "body" =>
            LET descriptor == input[out[k].spot].caveDamage
                lines == damageLines(out[k])
            IN IF descriptor = NULL \/ descriptor = "" \/ toLowerCase(descriptor) = "nothing"
               THEN lines = {}
               ELSE /\ Cardinality(lines) = 1
                    /\ \A l \in lines : out[k].content[l].parts[2] = descriptor

(***************************************************************************)
(* Claims on updateChannel (SpecUpdate).                                   *)
(***************************************************************************)
\* The bulk deletions that empty n messages by batches of fetchLimit.
fullBatches(n) ==
    [k \in 1..((n + fetchLimit - 1) \div fetchLimit) |->
        IF k <= n \div fetchLimit THEN fetchLimit ELSE n % fetchLimit]

\* C9: with N messages, all younger than 14 days, the clear step fetches
\* floor(N / 100) + 1 times, deletes by batches of 100 and then the rest, and ends
\* with the channel empty (250 messages: 3 fetches, deleting 100, 100 and 50).
C9_ClearBatches ==
    (pc \in {"header", "emit", "sent"} /\ old0 = 0) =>
        /\ fetches = (young0 \div fetchLimit) + 1
        /\ batches = fullBatches(young0)
        /\ young = 0

\* The clear step is over on a channel that held 250 young messages.
C9_Witness ==
    /\ pc = "header"
    /\ young0 = 250
    /\ old0 = 0
    /\ fetches = 3
    /\ batches = <<100, 100, 50>>

C11_StepsDone ==
    cmd = "update" =>
        /\ fetches > 0 => (len > 0 /\ spots = sortSpots(input))
        /\ sent > 0 => (fetches > 0 /\ young = 0 /\ pc \in {"emit", "sent", "threw"})

\* The steps of updateChannel follow one another in this order only.
C11_StepOrder ==
    (cmd = "update" /\ pc' # pc) =>
        <<pc, pc'>> \in { <<"fetch", "sort">>, <<"fetch", "noSpots">>, <<"fetch", "threw">>,
                          <<"sort", "clear">>,
                          <<"clear", "header">>, <<"clear", "clearFailed">>,
                          <<"header", "emit">>, <<"header", "threw">>,
                          <<"emit", "sent">>, <<"emit", "threw">> }

C10_ChannelReplaced ==
    (cmd = "update" /\ pc = "sent") => (young = 0 /\ old = 0)

(***************************************************************************)
(* Claims on fetchMapsForServer (SpecMaps).                                *)
(***************************************************************************)
\* The string map names a response holds: its string elements and the string map
\* fields of its object elements.
namesIn(answer) ==
    IF answer.outcome = "json" /\ answer.isArray
    THEN { answer.items[k].text : k \in { j \in 1..Len(answer.items) :
                                           answer.items[j].is = "string" } }
         \cup { answer.items[k].map : k \in { j \in 1..Len(answer.items) :
                   answer.items[j].is = "object" /\ answer.items[j].mapIs = "string" } }
    ELSE {}

\* C18: fetchMapsForServer returns a list, never an empty one: the 12 fallback maps
\* when the call failed, the status was not ok, the body was not an array or held no
\* string map name; otherwise the map names of the response, each once.
C18_MapsOrFallback ==
    maps # NULL =>
        /\ Len(maps) > 0
        /\ IF namesIn(response) = {}
           THEN maps = fallbackMaps /\ Len(maps) = 12
           ELSE /\ { maps[k] : k \in 1..Len(maps) } = namesIn(response)
                /\ Len(maps) = Cardinality(namesIn(response))

\* A JSON array with no string map name in it: the fallback list is returned.
C18_Witness ==
    /\ maps # NULL
    /\ maps = fallbackMaps
    /\ response.outcome = "json"
    /\ response.isArray
    /\ Len(response.items) = MaxItems

(***************************************************************************)
(* Claims on handleInteraction and the two commands (SpecRequest).         *)
(***************************************************************************)
isCommand == request.kind \in {"caves", "update"}

isAllMode == request.kind = "update" /\ request.mode = "all"

\* C12: in all-mode the entries are gone through one by one in their order, each
\* tallied once as a success or a failure whatever happened to the others; the
\* command does not end with an entry left, and the counts of the report add up to
\* the number of entries.
C12_EveryEntryOnce ==
    isAllMode =>
        /\ cursor <= Len(entries)
        /\ Len(outcomes) = cursor
        /\ success + failed = cursor
        /\ \A k \in 1..Len(outcomes) :
              /\ outcomes[k].channelId = entries[k]
              /\ outcomes[k].tally \in {"success", "failed"}
        /\ (Len(entries) > 0 /\ pc \in {"done", "cmdCatch"}) => cursor = Len(entries)
        /\ \A k \in 1..Len(replies) :
              replies[k].text = "report" =>
                  /\ cursor = Len(entries)
                  /\ replies[k].counts[1] + replies[k].counts[2] = Len(entries)

\* Two entries, the first channel gone, the second updated: the report says 1 and 1.
C12_Witness ==
    /\ isAllMode
    /\ pc = "done"
    /\ Len(entries) = 2
    /\ Len(outcomes) = 2
    /\ outcomes[1].end = "missing"
    /\ outcomes[2].end = "sent"
    /\ \E k \in 1..Len(replies) :
          replies[k].text = "report" /\ replies[k].ok /\ replies[k].counts = <<1, 1>>

\* C13: in all-mode an entry whose flow failed (the channel gone or of another kind,
\* the clear step failed, the flow threw) is tallied as a failure.
C13_FailedFlowsTallied ==
    isAllMode =>
        \A k \in 1..Len(outcomes) :
            outcomes[k].end \in {"missing", "voice", "rejected", "clearFailed", "threw"}
                => outcomes[k].tally = "failed"

\* C14: the handling of a chat command issues at most one reply or deferReply.
C14_OneAcknowledgement == isCommand => acks <= 1

\* C15: for a caller who is no administrator the commands issue at most one message,
\* the denial, by one reply, and do nothing else: the store file is as it was, no
\* deferReply, no flow, no message fetched, deleted or sent.
C15_DenialOnly ==
    (isCommand /\ ~request.admin) =>
        /\ pc \in {"start", "admin", "done"}
        /\ file = file0
        /\ acks <= 1
        /\ deferral = "none"
        /\ Len(replies) <= 1
        /\ \A k \in 1..Len(replies) : replies[k].via = "reply" /\ replies[k].text = "denial"
        /\ spots = <<>> /\ out = <<>> /\ sent = 0
        /\ fetches = 0 /\ batches = <<>>
        /\ outcomes = <<>> /\ entries = <<>>

\* The denial is delivered and the command has ended, bindings being saved.
C15_Witness ==
    /\ isCommand
    /\ ~request.admin
    /\ pc = "done"
    /\ file0 # EmptyStore
    /\ Len(replies) = 1
    /\ replies[1].ok

\* The generic message is issued at most once, by editReply when the interaction is
\* deferred or replied and by reply otherwise, and the handling ends with it whether
\* it was delivered or not.
C17_GenericStep ==
    (Len(replies') > Len(replies) /\ replies'[Len(replies')].text = "generic") =>
        /\ \A k \in 1..Len(replies) : replies[k].text # "generic"
        /\ replies'[Len(replies')].via =
              IF interaction.deferred \/ interaction.replied THEN "editReply" ELSE "reply"
        /\ pc' = "done"

\* C17: every handling ends, whatever failed in it: a failure is caught and gives at
\* most one generic message, an edit when the interaction was already deferred or
\* replied and a fresh reply otherwise; a failure to send it is swallowed.
C17_FailuresCaught == [][C17_GenericStep]_vars /\ <>(pc = "done")

\* The flow threw after the deferral, the generic edit was not delivered, the
\* handling has ended.
C17_Witness ==
    /\ pc = "done"
    /\ interaction.deferred
    /\ Len(outcomes) = 1
    /\ outcomes[1].end = "threw"
    /\ replies[Len(replies)] = Reply("editReply", "generic", FALSE, <<>>)

\* C19: a caves request whose fetch of the spots failed or returned no record, or
\* whose emission failed, leaves the store file as it was.
C19_BindingOnlyOnSuccess ==
    (request.kind = "caves" /\ Len(outcomes) > 0 /\ outcomes[1].end \in {"threw", "noSpots"})
        => file = file0

(***************************************************************************)
(* Claims on the autocomplete handled twice (SpecAutocomplete).            *)
(***************************************************************************)
\* C16: of two handlings of one autocomplete interaction, one after the other or
\* overlapping, one response at most is issued: the second handling issues none.
C16_SingleResponse ==
    Cardinality({ k \in 1..Len(replies) : replies[k].via = "respond" }) <= 1


(***************************************************************************)
(* The clear step of updateChannel.                                        *)
(***************************************************************************)
\* The sum of the sizes of the bulk deletions so far.
RECURSIVE sumOf(_)
sumOf(sizes) == IF sizes = <<>> THEN 0 ELSE Head(sizes) + sumOf(Tail(sizes))

\* C28: the clear step never asks for the deletion of a message of 14 days or more,
\* and what it deletes are messages of the channel being synchronized: the messages
\* of 14 days or more all stay, and the bulk deletions add up to the messages
\* younger than 14 days that have left the channel.
C28_OnlyYoungDeleted ==
    /\ old = old0
    /\ pc # "idle" => sumOf(batches) = young0 - young

\* C28: a batch that held a message of 14 days or more among younger ones was
\* filtered and bulk-deleted.
C28_Witness ==
    /\ pc = "header"
    /\ old0 > 0
    /\ young0 > 0
    /\ Len(batches) = 1
    /\ young = 0

\* C29: the clear step ends on every channel: a flow in the clear loop leaves it.
C29_ClearTerminates == (pc = "clear") ~> (pc # "clear")

\* C30: after a failure of the fetch or of the bulk deletion in the clear step the
\* flow has sent nothing to the channel, and it takes no further step: no message,
\* no further fetch, no further deletion.  A flow that has sent a message has
\* cleared every message younger than 14 days before.
C30_NothingAfterClearFailure ==
    /\ [](pc = "clearFailed" => (out = <<>> /\ sent = 0 /\ footers = <<>>))
    /\ [](sent > 0 => young = 0)
    /\ [][pc = "clearFailed" => UNCHANGED <<flowVars, channelVars>>]_vars

\* C30: the bulk deletion failed in the second pass of the clear loop, after a full
\* batch had been deleted.
C30_Witness ==
    /\ pc = "clearFailed"
    /\ fetches = 2
    /\ Len(batches) = 1
    /\ young > 0

\* C23: when a flow reports success, the count of the report is the number of
\* messages the flow has sent to the channel: dataset header, category headers,
\* bodies, separators and truncation footer.
C23_ReportCountsMessages ==
    pc = "sent" => reportedCount(messageCount) = sent + Len(footers)

(***************************************************************************)
(* The header parser.                                                      *)
(***************************************************************************)
\* C27: the parser returns (S, M) for the dataset header of every valid server S
\* and valid map M, a server and a map of the valid lists or nothing for any text,
\* and nothing for every category header and record body the flows emit.
C27_HeaderRoundTrip ==
    parsed # <<>> =>
        /\ \A server \in elementsOf(validServers), map \in elementsOf(validMaps) :
              headerText = textOf(datasetHeader("update", server, map))
                  => parsed[1] = [server |-> server, map |-> map]
        /\ parsed[1] # NullConfig =>
              /\ parsed[1].server \in elementsOf(validServers)
              /\ parsed[1].map \in elementsOf(validMaps)
        /\ headerText \in CategoryTexts \cup BodyTexts => parsed[1] = NullConfig

(***************************************************************************)
(* Routing, resolution and early exits of the commands.                    *)
(***************************************************************************)
\* C22: a repliable chat command of the deployed set is routed to its executor: it
\* is never answered 'Unknown command!'.
C22_DeployedCommandsRouted ==
    (/\ isChatInputCommand(request)
     /\ isRepliable(request)
     /\ request.commandName \in deployedCommands)
        => \A k \in 1..Len(replies) : replies[k].text # "unknown"

isHereMode == request.kind = "update" /\ request.mode = "here"

\* The index in the texts of the channel of the first text that parses, 0 if none.
firstHeader(texts) ==
    IF \E k \in 1..Len(texts) : parseServerAndMapFromHeader(texts[k]) # NullConfig
    THEN CHOOSE k \in 1..Len(texts) :
            /\ parseServerAndMapFromHeader(texts[k]) # NullConfig
            /\ \A j \in 1..(k - 1) : parseServerAndMapFromHeader(texts[j]) = NullConfig
    ELSE 0

\* C25: in update-here the target is the binding of (guild, channel) when the store
\* gives one, and then the messages are not fetched; with no binding the messages
\* are fetched once, and a target, if any, is what the newest message that parses
\* among the 100 newest parses to.
C25_BindingThenHeaderScan ==
    (isHereMode /\ savedCfg # <<>>) =>
        /\ savedCfg[1] # NullConfig => (resolved = savedCfg[1] /\ scans = 0)
        /\ savedCfg[1] = NullConfig =>
              /\ scans = 1
              /\ resolved # NullConfig =>
                    /\ firstHeader(history.texts) > 0
                    /\ history.padding + firstHeader(history.texts) <= fetchLimit
                    /\ resolved =
                          parseServerAndMapFromHeader(history.texts[firstHeader(history.texts)])

\* C25: no binding, two headers of different maps among the newest messages, and
\* the flow runs for the newer one.
C25_Witness ==
    /\ isHereMode
    /\ savedCfg = <<NullConfig>>
    /\ Len(history.texts) = 2
    /\ parseServerAndMapFromHeader(history.texts[1]) = [server |-> "Mesa", map |-> "Ragnarok"]
    /\ parseServerAndMapFromHeader(history.texts[2]) = [server |-> "INX", map |-> "The Island"]
    /\ resolved = [server |-> "Mesa", map |-> "Ragnarok"]
    /\ pc = "sent"

\* The request ended before any flow: a check refused it, or update-here resolved
\* no (server, map).
isEarlyExit ==
    /\ isCommand
    /\ isAdministrator(request)
    /\ \/ request.precheck # "ok"
       \/ isHereMode /\ savedCfg # <<>> /\ resolved = NullConfig

\* C26: a request that ends early has no partial side effect: the store file is as
\* it was, no message of the channel was fetched for deletion or deleted, and no
\* message was sent to the channel.
C26_NoPartialSideEffects ==
    isEarlyExit =>
        /\ file = file0
        /\ fetches = 0
        /\ batches = <<>>
        /\ young = young0
        /\ old = old0
        /\ sent = 0
        /\ out = <<>>
        /\ footers = <<>>
        /\ outcomes = <<>>

\* C26: caves refused for an invalid map in a guild with saved channels, and told so.
C26_Witness ==
    /\ request.kind = "caves"
    /\ request.precheck = "invalidMap"
    /\ file0 # EmptyStore
    /\ pc = "done"
    /\ Len(replies) = 1
    /\ replies[1].text = "notice"

(***************************************************************************)
(* The start of the bot.                                                   *)
(***************************************************************************)
\* C24: with the bot token or the client id missing, the start is aborted with a
\* non-success exit code: the process never logs in and handles no interaction.
C24_MissingCredentialAborts ==
    ((~env.token \/ ~env.clientId) /\ proc.at # "start") =>
        /\ proc.at = "exited"
        /\ proc.exitCode = 1
        /\ ~proc.loggedIn
        /\ proc.handled = 0

(***************************************************************************)
(* The populate loop.                                                      *)
(***************************************************************************)
\* The loop stands inside a pass over one map.
inPass == cmd = "populate" /\ pc \in {"fetch", "sort", "header", "emit", "sent", "noSpots", "threw"}

\* C21: the populate loop creates one forum post for a map whose fetch returned a
\* record and none for a map with no record: the posts are posts of maps gone
\* through, in their order and one at most for each; the pass of a map with no
\* record creates none, a pass that went past the creation has created exactly one,
\* for its map.  A failure in the pass of a map (fetch, creation or send) does not
\* keep the loop from the maps that remain: the loop goes on after every pass and
\* the command reports only after the last map.
C21_OnePostPerMapWithSpots ==
    /\ [](/\ \A k \in 1..Len(threads) :
                /\ \E j \in 1..mapIndex : maps[j] = threads[k]
                /\ \A j \in 1..Len(threads) : threads[j] = threads[k] => j = k
          /\ inPass =>
                /\ Len(input) = 0 => postsIn(out) = <<>>
                /\ pc \in {"fetch", "sort", "header", "noSpots"} => postsIn(out) = <<>>
                /\ pc \in {"emit", "sent"} => postsIn(out) = <<maps[mapIndex + 1]>>
                /\ Len(postsIn(out)) <= 1
          /\ pc = "populated" => mapIndex = Len(maps))
    /\ [][(inPass /\ pc \in {"sent", "noSpots", "threw"})
              => (pc' = "nextMap" /\ mapIndex' = mapIndex + 1)]_vars

\* C21: the pass of the first of three maps threw after its post was created, the
\* second map had no record, and the third map has its post and its messages.
C21_Witness ==
    /\ Len(maps) = 3
    /\ mapIndex = 2
    /\ threads = <<maps[1]>>
    /\ cmd = "populate"
    /\ pc = "sent"
    /\ postsIn(out) = <<maps[3]>>
(***************************************************************************)
(* A flow without records.                                                 *)
(***************************************************************************)
\* The flow is past fetchSpots and holds no record: the fetch threw or the catalog
\* answered with no record.
hasNoSpots == pc # "fetch" /\ spots = <<>>

placeOf(id) == CHOOSE j \in 1..Len(spots) : spots[j].id = id

isAttachment(message) == message.kind = "body" /\ message.files

\* The messages sent so far, in rendering order.
inRenderingOrder ==
    /\ out # <<>> => out[1] = datasetHeader(cmd, rendered.server, rendered.map)
    /\ \A k \in 2..Len(out) : out[k].kind # "dataset"
    /\ \A k \in 1..Len(out) :
          /\ out[k].kind = "separator" =>
                k > 1 /\ isAttachment(out[k - 1])
          /\ isAttachment(out[k]) /\ k < Len(out) =>
                \/ out[k + 1] = separatorMessage
                \/ /\ out[k + 1].kind = "body"
                   /\ ~out[k + 1].files
                   /\ out[k + 1].spot = out[k].spot
                   /\ throws > 0
          /\ out[k].kind = "body" =>
                \E c \in 1..(k - 1) :
                    /\ out[c].kind = "category"
                    /\ out[c].type = out[k].type
                    /\ \A j \in (c + 1)..k : out[j].kind \in {"body", "separator"}
    /\ \A k \in 1..Len(out), l \in 1..Len(out) :
          k < l /\ out[k].kind = "body" /\ out[l].kind = "body" =>
              placeOf(out[k].spot) <= placeOf(out[l].spot)

\* C31: within one flow the messages are emitted one at a time, in rendering order.
\* The dataset header is the first message and the only one of its kind; a send adds
\* to the end of what was sent before and changes none of it; a separator message
\* directly follows the message with the file of its record, and that message is
\* directly followed by its separator (by the text-only message of the same record
\* when the send of the separator threw); every body stands under the category
\* header of its type, and the bodies follow the order of the sorted array.
C31_EmittedInOrder ==
    /\ [](inRenderingOrder)
    /\ [][Len(out') >= Len(out) /\ SubSeq(out', 1, Len(out)) = out]_vars

\* A flow that has sent the dataset header, a category header, a plain body, a second
\* category header, a message with a file and its separator.
C31_Witness ==
    /\ pc = "sent"
    /\ Len(out) = 6
    /\ out[1].kind = "dataset"
    /\ out[2].kind = "category"
    /\ out[3].kind = "body" /\ ~out[3].files
    /\ out[4].kind = "category"
    /\ isAttachment(out[5])
    /\ out[6] = separatorMessage
(***************************************************************************)
(* The download of a video file fails.                                     *)
(***************************************************************************)
\* The text-only message that tells the file could not be attached.
tellsFailure(message) ==
    /\ message.kind = "body"
    /\ ~message.files
    /\ \E l \in 1..Len(message.content) : message.content[l].line = "failed"

bodiesOf(sends, id) == { k \in 1..Len(sends) : sends[k].kind = "body" /\ sends[k].spot = id }

\* The loop stands before a record with a video file, below the cap.
beforeVideoRecord ==
    /\ pc = "emit"
    /\ i < len
    /\ hasVideoFile(spots[i + 1])
    /\ ~truncates(messageCount)

\* C32: a failed download of a record's video file does not end the flow.  The pass
\* of that record goes on to the next record; it sends the record once, as a
\* text-only message that tells the failure, and no separator message; it adds 1 to
\* messageCount where the pass with the file adds 2 (the category header apart).  In
\* a flow none of whose sends threw, a record told as failed is in the channel once,
\* and a flow that ended without the footer has sent a body for every record.
C32_AttachmentFailureFallsBack ==
    /\ beforeVideoRecord =>
          LET spot == spots[i + 1]
              header == IF typeChanged(spot, lastType) THEN 1 ELSE 0
              failedPass == loopBody(cmd, spot, len, messageCount, lastType, idx, FALSE, 0)
              filePass == loopBody(cmd, spot, len, messageCount, lastType, idx, TRUE, 0)
          IN /\ failedPass.exit = "next"
             /\ Cardinality(bodiesOf(failedPass.sends, spot.id)) = 1
             /\ \A k \in bodiesOf(failedPass.sends, spot.id) : tellsFailure(failedPass.sends[k])
             /\ \A k \in 1..Len(failedPass.sends) : failedPass.sends[k].kind # "separator"
             /\ failedPass.messageCount = messageCount + header + 1
             /\ filePass.messageCount = messageCount + header + 2
             /\ failedPass.idx = filePass.idx
    /\ throws = 0 =>
          /\ spots # <<>> => pc # "threw"
          /\ \A k \in 1..Len(out) :
                tellsFailure(out[k]) => bodiesOf(out, out[k].spot) = {k}
          /\ pc = "sent" /\ footers = <<>> =>
                \A j \in 1..len : bodiesOf(out, spots[j].id) # {}

\* Two records with a video file, both downloads failed and no send threw: both are
\* in the channel as text-only messages, the second after the first.
C32_Witness ==
    /\ pc = "sent"
    /\ throws = 0
    /\ len = 2
    /\ Len(out) = 4
    /\ tellsFailure(out[3]) /\ out[3].spot = spots[1].id
    /\ tellsFailure(out[4]) /\ out[4].spot = spots[2].id
    /\ messageCount = 4
(***************************************************************************)
(* The store under failed reads and concurrent callers.                    *)
(***************************************************************************)
\* The store that holds the binding of the call and nothing else.
onlyBinding(call) ==
    [g \in Guilds |->
        IF g = call.guildId THEN [c \in {call.channelId} |-> call.config]
        ELSE EmptyGuildStore]

isPut(call) == call.op = "put" /\ call.at \in {"write", "returned"}

\* C36: a put whose read of the file fails (or finds content that does not parse)
\* goes on with the empty store: the store object it holds is the new binding alone,
\* and when its write lands, the file holds that binding and no other, whatever the
\* file held before in any guild.
C36_FailedReadDiscardsBindings ==
    /\ [](\A p \in Callers :
            isPut(calls[p]) /\ ~calls[p].readOk =>
                calls[p].seen = EmptyStore /\ calls[p].held = onlyBinding(calls[p]))
    /\ [][\A p \in Callers :
            /\ isPut(calls[p])
            /\ ~calls[p].readOk
            /\ calls[p].at = "write"
            /\ calls'[p].at = "returned"
            /\ calls'[p].wrote
            => file' = onlyBinding(calls[p])]_vars

\* A put in g2 whose read failed has written while the other caller had read two
\* bindings of g1 and one of g2 from the file: the file now holds the new binding
\* alone.
C36_Witness ==
    \E p \in Callers, q \in Callers :
        /\ isPut(calls[p]) /\ calls[p].at = "returned"
        /\ ~calls[p].readOk
        /\ calls[p].wrote
        /\ calls[p].guildId = "g2"
        /\ calls[q].at = "write"
        /\ calls[q].readOk /\ calls[q].readAt = 0
        /\ Cardinality(DOMAIN calls[q].seen["g1"]) = 2
        /\ Cardinality(DOMAIN calls[q].seen["g2"]) = 1
        /\ file = onlyBinding(calls[p])
        /\ DOMAIN file["g1"] = {}
\* Two puts in one guild, on distinct channels with distinct pairs, both read the
\* file before either wrote, both wrote, p first and q last, and both have returned.
lostUpdate(p, q) ==
    /\ p # q
    /\ calls[p].op = "put" /\ calls[q].op = "put"
    /\ calls[p].guildId = calls[q].guildId
    /\ calls[p].channelId # calls[q].channelId
    /\ calls[p].config # calls[q].config
    /\ calls[p].at = "returned" /\ calls[q].at = "returned"
    /\ calls[p].readOk /\ calls[q].readOk
    /\ calls[p].readAt = 0 /\ calls[q].readAt = 0
    /\ calls[p].wrote /\ calls[q].wrote
    /\ writes = <<p, q>>

\* C33: puts are not serialized.  When two puts in one guild on distinct channels
\* with distinct pairs both read before either writes, both return normally and the
\* file holds what the later writer made of the store it had read: the binding of
\* the later writer, and for the channel of the earlier writer what the file held
\* before the two calls, not what the earlier writer put there.
C33_LastWriterWins ==
    \A p \in Callers, q \in Callers :
        lostUpdate(p, q) =>
            /\ file = upsertStore(calls[q].seen, calls[q].guildId, calls[q].channelId,
                                  calls[q].config)
            /\ calls[q].seen = calls[p].seen
            /\ getChannelConfig(file, calls[q].guildId, calls[q].channelId) = calls[q].config
            /\ getChannelConfig(file, calls[p].guildId, calls[p].channelId) = calls[p].config
                 => getChannelConfig(calls[p].seen, calls[p].guildId, calls[p].channelId)
                      = calls[p].config

\* From the empty file: both puts have returned, the file holds the binding of the
\* later writer and none for the channel of the earlier one.
C33_Witness ==
    \E p \in Callers, q \in Callers :
        /\ lostUpdate(p, q)
        /\ calls[p].seen = EmptyStore
        /\ file = onlyBinding(calls[q])
        /\ getChannelConfig(file, calls[p].guildId, calls[p].channelId) = NullConfig
\* No guild of the store binds two channels to the same (server, map) pair.
isUnique(store) ==
    \A g \in Guilds : \A c1, c2 \in DOMAIN store[g] :
        c1 # c2 => store[g][c1] # store[g][c2]

\* C34: under every interleaving of concurrent put and remove calls at their reads
\* and writes, each write replacing the whole file, the file never binds two channels
\* of a guild to the same pair; neither does a store a call has read or holds.
C34_UniquenessUnderInterleaving ==
    /\ isUnique(file)
    /\ \A p \in Callers : isUnique(calls[p].seen) /\ isUnique(calls[p].held)

\* A put and a remove of the same guild that both read before either wrote have both
\* written, the put last, and the guild holds three bindings.
C34_Witness ==
    \E p \in Callers, q \in Callers :
        /\ calls[p].op = "remove" /\ calls[q].op = "put"
        /\ calls[p].guildId = "g1" /\ calls[q].guildId = "g1"
        /\ calls[p].at = "returned" /\ calls[q].at = "returned"
        /\ calls[p].readOk /\ calls[q].readOk
        /\ calls[p].readAt = 0 /\ calls[q].readAt = 0
        /\ writes = <<p, q>>
        /\ Cardinality(DOMAIN file["g1"]) = 3
        /\ calls[p].channelId \in DOMAIN file["g1"]
(***************************************************************************)
(* Update flows that share a channel.                                      *)
(***************************************************************************)
messagesOf(content) == { content[k] : k \in 1..Len(content) }

headersIn(content) == { m \in messagesOf(content) : m.kind = "dataset" }

\* C35: two update flows on one channel are not kept apart.  A flow that is under
\* way can always take its next step, wherever the other flow stands; a bulk delete
\* that lands removes every message of the flow's latest fetch from the channel,
\* those another flow has sent included, and nothing else; a send adds its message
\* after whatever the channel holds.
C35_FlowsInterleave ==
    /\ [](\A t \in Updaters : tasks[t].at # "idle" => ENABLED TaskStep(t))
    /\ [][\A t \in Updaters :
            /\ tasks[t].at = "delete" /\ tasks'[t].at \in {"fetch", "header"}
                 => /\ messagesOf(chan') = messagesOf(chan) \ tasks[t].fetched
                    /\ \A m \in messagesOf(chan) \cap tasks[t].fetched :
                          \E x \in purged' : x.by = m.by /\ x.deleter = t
            /\ tasks[t].at \in {"header", "emit"} /\ tasks'[t].n = tasks[t].n + 1
                 => /\ Len(chan') = Len(chan) + 1
                    /\ SubSeq(chan', 1, Len(chan)) = chan
                    /\ chan'[Len(chan')].by = t]_vars

\* Both flows have returned; one of them had deleted a message of the other while
\* the other was still sending, and the channel now holds the dataset headers of
\* both and bodies of both.
C35_Witness ==
    /\ \A t \in Updaters : tasks[t].at = "idle"
    /\ \E x \in purged : x.during
    /\ \E h1, h2 \in headersIn(chan) : h1.by = "u1" /\ h2.by = "u2"
    /\ \E b1, b2 \in messagesOf(chan) :
          b1.kind = "body" /\ b2.kind = "body" /\ b1.by = "u1" /\ b2.by = "u2"
(***************************************************************************)
(* A pair bound to another channel of the guild.                           *)
(***************************************************************************)
isUpdateHere == isHereMode /\ file0 = rebound /\ history = leftByCaves

isUpdateAll == isAllMode /\ file0 = rebound

\* C38: after /caves has bound (S, M) to c1 and a later /caves has bound (S, M) to
\* c2 of the same guild, c1 has no binding and c2 has it.  An update-here in c1,
\* where the rendering of /caves is still the latest, finds no saved config, scans
\* the messages and resolves (S, M) from the dataset header, and the flow it starts
\* renders (S, M) in c1; only a failed fetch of the messages resolves nothing, and
\* then no flow starts.  An update-all goes through c2 alone.  Neither writes the
\* store.
C38_ReboundChannelStillUpdates ==
    /\ getChannelConfig(rebound, guild, channel) = NullConfig
    /\ getChannelConfig(rebound, guild, "c2") = target
    /\ request.kind = "update" => file = file0
    /\ isUpdateHere /\ savedCfg # <<>> =>
          /\ savedCfg = <<NullConfig>>
          /\ scans = 1
          /\ resolved \in {target, NullConfig}
          /\ resolved = NullConfig => pc \in {"done", "cmdCatch"} /\ out = <<>> /\ batches = <<>>
          /\ out # <<>> => out[1] = datasetHeader("update", target.server, target.map)
          /\ \A k \in 1..Len(outcomes) : outcomes[k].channelId = channel
    /\ isUpdateAll =>
          /\ entries \in {<<>>, <<"c2">>}
          /\ \A k \in 1..Len(outcomes) : outcomes[k].channelId = "c2"

\* The update-here in c1 has cleared the channel and sent the header of (S, M) and
\* the record; the store binds c2 alone, as before.
C38_Witness ==
    /\ isUpdateHere
    /\ resolved = target
    /\ pc = "done"
    /\ young0 > 0
    /\ batches # <<>>
    /\ Len(out) = 3
    /\ out[1] = datasetHeader("update", target.server, target.map)
    /\ outcomes = <<Outcome(channel, "sent", NULL)>>
    /\ file = rebound
    /\ DOMAIN file[guild] = {"c2"}
(***************************************************************************)
(* A deferral that is not acknowledged.                                    *)
(***************************************************************************)
\* The deferral has been tried and the interaction is neither deferred nor replied.
unacknowledged ==
    /\ deferral \in {"rejected", "inflight"}
    /\ ~interaction.deferred
    /\ ~interaction.replied

\* C39: a deferral that fails or times out does not stop the command.  Whatever the
\* deferral came to, the command goes on to its checks; when none refuses it, caves
\* goes on to save the binding and to its flow, update to the saved channels or to
\* the resolution, and with a pair resolved to its flow; none of these steps looks
\* at whether the interaction was acknowledged.
C39_FailedDeferralGoesOn ==
    [][/\ pc = "defer" => pc' = "checks" /\ UNCHANGED <<file, young, old, out>>
       /\ pc = "checks" /\ pc' # pc /\ ~refuses(request) =>
              pc' = (CASE request.kind = "caves" -> "save"
                       [] request.mode = "all" -> "all"
                       [] OTHER -> "resolve")
       /\ pc = "save" /\ pc' # pc => pc' = "fetch" /\ cmd' = "caves"
       /\ pc = "resolve" /\ pc' # pc /\ resolved' # NullConfig =>
              pc' = "fetch" /\ cmd' = "update"
       /\ pc = "all" /\ pc' # pc /\ entries' # <<>> => pc' = "allNext"]_vars

\* A /caves whose deferral was rejected has ended: it has bound the channel in the
\* store and sent its messages, and the interaction was never acknowledged.
C39_Witness ==
    /\ request.kind = "caves"
    /\ deferral = "rejected"
    /\ unacknowledged
    /\ pc = "done"
    /\ file # file0
    /\ getChannelConfig(file, guild, channel) = target
    /\ Len(out) = 3
    /\ \A k \in 1..Len(replies) : ~replies[k].ok

\* An update-here whose deferral timed out and never settled has deleted the
\* messages of the channel and sent its own.
C39_UpdateWitness ==
    /\ isHereMode
    /\ deferral = "inflight"
    /\ unacknowledged
    /\ pc = "done"
    /\ batches # <<>>
    /\ young = 0 /\ young0 > 0
    /\ Len(out) = 3
====
